---- MODULE Spec2Model ----
(***************************************************************************)
(* Verification model of the native build engine of platform_build_soong. *)
(*                                                                         *)
(* Specification Spec models the staged build drivers                      *)
(* (cc_binary_parser.main and cc_library.main) together with the per-file  *)
(* compilation pool, the link/archive step and the installer of            *)
(* cc_library.py.  Specification SpecInstall models the destination        *)
(* selection of the installers.  Specification SpecDefaults models the     *)
(* defaults resolver (defaults_parser.apply_defaults) and what source-root *)
(* resolution and compilation do to a resolved record.  Specification      *)
(* SpecFix models the fixed-point tree rewriter of bpfix.py.               *)
(* Specification SpecRequest models the FixRequest builder of bpfix.py     *)
(* under chains of builder calls.  Specification SpecPrint models the      *)
(* rewriter on module objects whose properties are kept in insertion       *)
(* order, as json.dumps prints them.  Specification SpecParse models the   *)
(* blueprint parser (blueprint_parser.py), the drivers that consume its    *)
(* records (all_teams.py, main_build.py, cc_library.main) and the          *)
(* patch-list functions of bpfix.py.                                       *)
(*                                                                         *)
(* Paths are sequences of strings (their components); a source path is a   *)
(* record [dir, stem, ext] so that basename and splitext can be computed.  *)
(***************************************************************************)
EXTENDS Integers, Sequences, FiniteSets, TLC

\* ------------------------------------------------------------------------
\* Bounds of the model
\* ------------------------------------------------------------------------
\* Number of blueprint directories listed in the module-path manifest.
NumBaseDirs == 2
\* Size of the worker pool that runs compilation units.
MaxWorkers == 2

\* ------------------------------------------------------------------------
\* The module records of the build (the parsed, defaults-resolved configs)
\* ------------------------------------------------------------------------
NoSrc == [dir |-> "", stem |-> "", ext |-> ""]

Src(d, s, e) == [dir |-> d, stem |-> s, ext |-> e]

\* all_configs, in manifest order
AllConfigs == <<"H", "S", "L", "B1", "B2">>

Modules == {AllConfigs[i] : i \in 1..Len(AllConfigs)}

\* the immutable part of every record
Config ==
  [m \in Modules |->
    CASE m = "H"  -> [type |-> "cc_library_headers", srcs |-> <<>>, src |-> NoSrc,
                      export_include_dirs |-> <<"inc">>, header_libs |-> <<>>,
                      shared_libs |-> <<>>, static_libs |-> <<>>,
                      has_export_include_dirs |-> TRUE,
                      recovery_available |-> FALSE, vendor |-> FALSE]
      [] m = "S"  -> [type |-> "cc_library_static",
                      srcs |-> <<Src("a", "foo", "c"), Src("b", "foo", "c")>>,
                      src |-> NoSrc,
                      export_include_dirs |-> <<"sinc">>, header_libs |-> <<"H">>,
                      shared_libs |-> <<>>, static_libs |-> <<>>,
                      has_export_include_dirs |-> TRUE,
                      recovery_available |-> FALSE, vendor |-> FALSE]
      [] m = "L"  -> [type |-> "cc_library_shared",
                      srcs |-> <<Src("", "x", "c")>>, src |-> Src("", "y", "c"),
                      export_include_dirs |-> <<>>, header_libs |-> <<>>,
                      shared_libs |-> <<>>, static_libs |-> <<>>,
                      has_export_include_dirs |-> FALSE,
                      recovery_available |-> FALSE, vendor |-> FALSE]
      [] m = "B1" -> [type |-> "cc_binary",
                      srcs |-> <<Src("", "main", "cpp")>>, src |-> NoSrc,
                      export_include_dirs |-> <<>>, header_libs |-> <<>>,
                      shared_libs |-> <<"L">>, static_libs |-> <<"S">>,
                      has_export_include_dirs |-> FALSE,
                      recovery_available |-> TRUE, vendor |-> TRUE]
      [] OTHER    -> [type |-> "cc_binary",
                      srcs |-> <<Src("", "m2", "c")>>, src |-> NoSrc,
                      export_include_dirs |-> <<>>, header_libs |-> <<>>,
                      shared_libs |-> <<>>, static_libs |-> <<>>,
                      has_export_include_dirs |-> FALSE,
                      recovery_available |-> FALSE, vendor |-> TRUE]]

\* the directories of the blueprint files listed in the manifest (bp_paths),
\* in manifest order; the first NumBaseDirs of them are listed
DirNames == <<"d1", "d2", "d3", "d4">>

\* ------------------------------------------------------------------------
\* Helper operators on sequences
\* ------------------------------------------------------------------------
Range(s) == {s[i] : i \in 1..Len(s)}

RECURSIVE SelectModules(_, _)
SelectModules(seq, type) ==
  IF seq = <<>> THEN <<>>
  ELSE IF Config[Head(seq)].type = type
       THEN <<Head(seq)>> \o SelectModules(Tail(seq), type)
       ELSE SelectModules(Tail(seq), type)

\* ------------------------------------------------------------------------
\* State
\* ------------------------------------------------------------------------
VARIABLES
  env,                 \* the run's environment: driver, file system layout,
                       \* compiler and linker behaviour (fixed during a run)
  configs,             \* the mutable lists of every record: srcs, export_include_dirs
  header_include_dirs, \* include directories collected from header libraries
  pos,                 \* index of the module being processed in the stage order
  pc,                  \* position of the driver inside the current module
  base_path,           \* per module: index of the resolved base directory, 0 if none
  missing_sources,     \* per module: the missing paths collected and reported
  futures,             \* per module: the submitted compilation units
  results,             \* per module: unit indices in completion order
  obj_files,           \* per module: object files handed to the link step
  link_cmd,            \* per module: the archiver/linker invocation
  reported,            \* per module: library paths reported as not existing
  status,              \* per module: outcome so far
  installs,            \* per module: the paths the artifact was copied to
  fs,                  \* artifact paths that exist in the output tree
  dest,                \* installer model: the chosen destination (SpecInstall)
  heap,                \* resolver model: the list objects, by reference
  config,              \* resolver model: the target record being resolved
  defaults_map,        \* resolver model: name -> defaults record
  registered,          \* resolver model: the defaults records as registered
  history,             \* resolver model: the target as parsed and after each
                       \* application of apply_defaults
  compiled,            \* resolver model: the target went through source-root
                       \* resolution and compile_library
  fix_steps_extensions, \* rewriter model: the extension registry
  step_lists,          \* rewriter model: the step list objects (the base list
                       \* and the list of the current request)
  caller,              \* rewriter model: the caller's tree and its value when
                       \* it was handed to the Fixer
  objs,                \* rewriter model: the module objects, by reference
  fixer,               \* rewriter model: the Fixer and the position of fix
  module_info,         \* parser model: the manifest, the blueprint paths it lists
  parsed,              \* parser model: what the parser or the driver returned
  all_teams,           \* parser model: the exported all_teams.json
  buckets,             \* parser model: the lists a build driver sorted the
                       \* records into, and what it handed to the compilers
  patch                \* patch-list model: the module handed to a patch-list
                       \* function and the module after the call

resolverVars == <<heap, config, defaults_map, registered, history, compiled>>

fixerVars == <<fix_steps_extensions, step_lists, caller, objs, fixer>>

parserVars == <<module_info, parsed, all_teams, buckets, patch>>

vars == <<env, configs, header_include_dirs, pos, pc, base_path, missing_sources,
          futures, results, obj_files, link_cmd, reported, status, installs, fs, dest,
          resolverVars, fixerVars, parserVars>>

buildVars == <<env, configs, header_include_dirs, pos, pc, base_path,
               missing_sources, futures, results, obj_files, link_cmd, reported,
               status, installs, fs>>

\* ------------------------------------------------------------------------
\* Records and values of the defaults resolver
\* ------------------------------------------------------------------------
\* the keys of a record, in the order the dict holds them
PropKeys == <<"defaults", "srcs", "src", "export_include_dirs">>

Absent == [tag |-> "absent", str |-> "", ref |-> 0]

Str(s) == [tag |-> "str", str |-> s, ref |-> 0]

ListRef(r) == [tag |-> "list", str |-> "", ref |-> r]

\* the names registered in the defaults map
DefaultsNames == {"d1", "d2"}

\* a record by value: every list reference replaced by the list's items
Deref(record, hp) ==
  [k \in DOMAIN record |->
     [tag |-> record[k].tag, str |-> record[k].str,
      items |-> IF record[k].tag = "list" THEN hp[record[k].ref] ELSE <<>>]]

\* the resolver is idle in the other specifications: no record, an empty map
IdleDefaults ==
  /\ heap = <<>>
  /\ config = <<>>
  /\ defaults_map = <<>>
  /\ registered = <<>>
  /\ history = <<>>
  /\ compiled = FALSE

\* ------------------------------------------------------------------------
\* The idle state of the tree rewriter
\* ------------------------------------------------------------------------
\* calls holds the builder calls made on the request that is being built,
\* chain the number of builder calls a request is built with
NoFixer ==
  [pc |-> "idle", request |-> "request", tree |-> <<>>, identifiers |-> <<>>,
   passes |-> 0, step |-> 0, applied |-> <<>>, error |-> "", calls |-> <<>>,
   chain |-> 1]

\* the rewriter is idle in the other specifications
IdleFix ==
  /\ fix_steps_extensions = <<>>
  /\ step_lists = [l \in {"fix_steps", "request"} |-> <<>>]
  /\ caller = [tree |-> <<>>, original |-> <<>>]
  /\ objs = <<>>
  /\ fixer = NoFixer

\* ------------------------------------------------------------------------
\* The idle state of the blueprint parser and of the patch-list functions
\* ------------------------------------------------------------------------
\* the parser is idle in the other specifications
IdleParse ==
  /\ module_info = <<>>
  /\ parsed = [op |-> "", file |-> "", ok |-> TRUE, configs |-> <<>>]
  /\ all_teams = [done |-> FALSE, teams |-> <<>>]
  /\ buckets = [driver |-> "", placed |-> <<>>, compiled |-> <<>>,
               lookup |-> <<>>]
  /\ patch = [pc |-> "idle", before |-> <<>>, mod |-> <<>>]

\* ------------------------------------------------------------------------
\* Environment: file system and external tools
\* ------------------------------------------------------------------------
\* os.path.exists(os.path.join(base_path, src)) for the i-th manifest directory
Exists(i, s) == i >= env.home /\ s # env.absent

\* the compiler's exit status for a source compiled under the i-th directory
CompileFails(i, s) == s \in env.unitFails \/ ~Exists(i, s)

\* the archiver/linker's exit status, given whether every named library was
\* put on its command line
LinkerReturnsOk(m, allLibsGiven) ==
  \/ env.ld[m] = "ok"
  \/ env.ld[m] = "needs_libs" /\ allLibsGiven

\* ------------------------------------------------------------------------
\* Paths
\* ------------------------------------------------------------------------
\* os.path.splitext(os.path.basename(src))[0]
BaseStem(s) == s.stem

KindDir(m) ==
  CASE Config[m].type = "cc_library_static"  -> "STATIC_LIBRARIES"
    [] Config[m].type = "cc_library_shared"  -> "SHARED_LIBRARIES"
    [] Config[m].type = "cc_library_headers" -> "HEADER_LIBRARIES"
    [] OTHER                                 -> "EXECUTABLES"

\* intermediates_dir of compile_library / compile_cc_binary
IntermediatesDir(m, b) ==
  <<"out", "soong", ".intermediates", DirNames[b], KindDir(m), m, "_intermediates">>

\* obj_file of cc_library.compile_source_file
ObjFile(intermediates_dir, b, s) ==
  intermediates_dir \o <<"obj", DirNames[b], BaseStem(s), ".o">>

\* output_file of compile_library / compile_cc_binary
OutputFile(m, b) ==
  IntermediatesDir(m, b) \o <<"LINKED", m>> \o
    (CASE Config[m].type = "cc_library_static" -> <<".a">>
       [] Config[m].type = "cc_library_shared" -> <<".so">>
       [] OTHER -> <<>>)

\* get_library_path
get_library_path(lib_name, lib_type) ==
  CASE lib_type = "static" ->
         <<"target_product_out", "obj", "lib", "STATIC_LIBRARIES", lib_name,
           "_intermediates", "LINKED", lib_name, ".a">>
    [] lib_type = "headers" ->
         <<"target_product_out", "obj", "lib", "HEADER_LIBRARIES", lib_name,
           "_intermediates">>
    [] OTHER ->
         <<"target_product_out", "obj", "lib", "SHARED_LIBRARIES", lib_name,
           "_intermediates", "LINKED", lib_name, ".so">>


\* target_arch of device_info: the architecture the libraries are installed for
target_arch == "64"

\* output_dir of compile_cc_binary
OutputDir(recovery_available, is_vendor, host) ==
  IF host THEN <<"out", "host", "linux-x86", "bin">>
  ELSE IF recovery_available THEN <<"target_recovery_out_usr_bin">>
  ELSE IF is_vendor THEN <<"target_vendor_out_bin">>
  ELSE <<"target_system_out_bin">>

\* dest_dir of prebuilt_etc_parser.copy_prebuilt_etc_files: the vendor/system
\* choice is overwritten by recovery, and that by ramdisk
PrebuiltDestDir(is_vendor, is_recovery, is_ramdisk, sub_dir) ==
  LET d1 == IF is_vendor THEN <<"target_vendor_out_etc">>
            ELSE <<"target_system_out_etc">>
      d2 == IF is_recovery THEN <<"target_recovery_out_etc">> ELSE d1
      d3 == IF is_ramdisk THEN <<"target_ramdisk_out">> ELSE d2
  IN IF sub_dir = "" THEN d3 ELSE d3 \o <<sub_dir>>

\* destination directory of compile_library
LibDestDir ==
  IF target_arch = "32" THEN <<"target_system_out_lib">>
  ELSE <<"target_system_out_lib64">>

\* ------------------------------------------------------------------------
\* Stage order of the drivers
\* ------------------------------------------------------------------------
\* a stage order that builds the binaries before the libraries
StageOrderBinariesFirst(driver) ==
  SelectModules(AllConfigs, "cc_library_headers")
    \o SelectModules(AllConfigs, "cc_binary")
    \o SelectModules(AllConfigs, "cc_library_static")
    \o SelectModules(AllConfigs, "cc_library_shared")

\* cc_binary_parser.main: headers, static, shared, binaries
\* cc_library.main:       headers, shared, static, binaries
StageOrder(driver) ==
  IF driver = "cc_binary_parser"
  THEN SelectModules(AllConfigs, "cc_library_headers")
         \o SelectModules(AllConfigs, "cc_library_static")
         \o SelectModules(AllConfigs, "cc_library_shared")
         \o SelectModules(AllConfigs, "cc_binary")
  ELSE SelectModules(AllConfigs, "cc_library_headers")
         \o SelectModules(AllConfigs, "cc_library_shared")
         \o SelectModules(AllConfigs, "cc_library_static")
         \o SelectModules(AllConfigs, "cc_binary")

Order == StageOrder(env.driver)

Running == pos <= Len(Order)

Cur == Order[pos]

IsHeader(m) == Config[m].type = "cc_library_headers"
IsStatic(m) == Config[m].type = "cc_library_static"
IsShared(m) == Config[m].type = "cc_library_shared"
IsBinary(m) == Config[m].type = "cc_binary"
IsLibrary(m) == IsStatic(m) \/ IsShared(m)

\* ------------------------------------------------------------------------
\* Initial state
\* ------------------------------------------------------------------------
\* a source that exists under no directory (NoSrc: every source exists)
AbsentChoices == {NoSrc, Src("b", "foo", "c"), Src("", "m2", "c")}

\* artifacts left in the product tree by an earlier run or a prebuilt
StaleChoices == {{}, {get_library_path("S", "static")}}

\* the sources whose compilation fails: none, or one source of one module
UnitFailChoices ==
  {{}, {Src("a", "foo", "c")}, {Src("", "x", "c")}, {Src("", "main", "cpp")},
   {Src("", "m2", "c")}}

AllOk == [m \in Modules |-> "ok"]

\* the behaviour of the archiver/linker: every module links, or one module's
\* link step fails, or one binary fails to link unless it is given every
\* library it names
LdChoices ==
  {AllOk}
    \cup {[AllOk EXCEPT ![m] = "fail"] : m \in {x \in Modules : ~IsHeader(x)}}
    \cup {[AllOk EXCEPT ![m] = "needs_libs"] : m \in {x \in Modules : IsBinary(x)}}

\* cc_binary_parser.main searches the manifest directories; cc_library.main
\* is handed the one directory (the first) that holds the sources
\* a run with a source missing from every directory has no other fault
EnvChoices ==
  {e \in [driver : {"cc_binary_parser"}, home : 1..NumBaseDirs,
          absent : AbsentChoices, unitFails : UnitFailChoices, ld : LdChoices,
          stale : StaleChoices] :
     e.absent # NoSrc => (e.unitFails = {} /\ e.ld = AllOk)}
  \cup
  [driver : {"cc_library"}, home : {1}, absent : {NoSrc},
   unitFails : UnitFailChoices, ld : LdChoices, stale : StaleChoices]

NoLink == [invoked |-> FALSE, tool |-> "", output_file |-> <<>>,
           objs |-> <<>>, libs |-> <<>>, returncode |-> 0]

NoInstall == [installer |-> "", recovery |-> FALSE, vendor |-> FALSE,
              ramdisk |-> FALSE, sub_dir |-> "", done |-> FALSE, targets |-> {}]

InitBuild ==
  /\ env \in EnvChoices
  /\ configs = [m \in Modules |->
                  [srcs |-> Config[m].srcs,
                   export_include_dirs |->
                     [i \in 1..Len(Config[m].export_include_dirs) |->
                        <<Config[m].export_include_dirs[i]>>]]]
  /\ header_include_dirs = <<>>
  /\ pos = 1
  /\ pc = "start"
  /\ base_path = [m \in Modules |-> 0]
  /\ missing_sources = [m \in Modules |-> <<>>]
  /\ futures = [m \in Modules |-> <<>>]
  /\ results = [m \in Modules |-> <<>>]
  /\ obj_files = [m \in Modules |-> <<>>]
  /\ link_cmd = [m \in Modules |-> NoLink]
  /\ reported = [m \in Modules |-> <<>>]
  /\ status = [m \in Modules |-> "pending"]
  /\ installs = [m \in Modules |-> {}]
  /\ fs = env.stale

Init ==
  /\ InitBuild
  /\ dest = NoInstall
  /\ IdleDefaults
  /\ IdleFix
  /\ IdleParse

\* the driver moves on to the next module of the stage order
NextModule ==
  /\ pos' = pos + 1
  /\ pc' = "start"

\* a failure that would leave the driver's loop over the modules
ModuleFailedAbortsRun(m, outcome) ==
  /\ status' = [status EXCEPT ![m] = outcome]
  /\ pos' = Len(Order) + 1
  /\ pc' = "start"

\* a module that is skipped or fails: the error is printed, the function
\* returns and the driver's loop goes on with the next module
ModuleFailed(m, outcome) ==
  /\ status' = [status EXCEPT ![m] = outcome]
  /\ NextModule

\* ------------------------------------------------------------------------
\* Headers stage
\* ------------------------------------------------------------------------
\* [os.path.join(base_path, inc) for inc in export_include_dirs]
HeaderDirsUnder(m, b) ==
  [k \in 1..Len(Config[m].export_include_dirs) |->
     <<DirNames[b], Config[m].export_include_dirs[k]>>]

RECURSIVE HeaderDirsAllBases(_, _)
\* the inner loop of cc_binary_parser.main over bp_paths, from directory i on
HeaderDirsAllBases(m, i) ==
  IF i > NumBaseDirs THEN <<>>
  ELSE HeaderDirsUnder(m, i) \o HeaderDirsAllBases(m, i + 1)

meta_lic_file(m) ==
  <<"target_obj", "HEADER_LIBRARIES", m, "_intermediates", "meta_lic">>

ProcessHeaderLibrary ==
  /\ Running
  /\ pc = "start"
  /\ IsHeader(Cur)
  /\ IF env.driver = "cc_binary_parser"
     THEN /\ header_include_dirs' = header_include_dirs \o HeaderDirsAllBases(Cur, 1)
          /\ fs' = fs \cup {meta_lic_file(Cur)}
     ELSE /\ header_include_dirs' = header_include_dirs \o HeaderDirsUnder(Cur, env.home)
          /\ fs' = fs
  /\ status' = [status EXCEPT ![Cur] = "processed"]
  /\ NextModule
  /\ UNCHANGED <<env, configs, base_path, missing_sources, futures, results,
                 obj_files, link_cmd, reported, installs, dest, parserVars, resolverVars, fixerVars>>

\* ------------------------------------------------------------------------
\* Source root resolution (cc_binary_parser.main)
\* ------------------------------------------------------------------------
\* srcs after "if src: srcs.append(src)"
WithSrc(m, srcs) ==
  IF Config[m].src # NoSrc THEN Append(srcs, Config[m].src) ELSE srcs

RECURSIVE ScanBasePathsLast(_, _, _, _)
\* the loop without its "break": a later qualifying directory replaces an
\* earlier one
ScanBasePathsLast(m, i, srcs, missing) ==
  IF i > NumBaseDirs
  THEN [valid_sources |-> FALSE, base_path |-> 0, srcs |-> srcs, missing |-> missing]
  ELSE LET srcs1 == WithSrc(m, srcs)
           src_files_exist == \A k \in 1..Len(srcs1) : Exists(i, srcs1[k])
           rest == ScanBasePathsLast(m, i + 1, srcs1,
                     missing \o SelectSeq(srcs1, LAMBDA x : ~Exists(i, x)))
       IN IF src_files_exist /\ ~rest.valid_sources
          THEN [rest EXCEPT !.valid_sources = TRUE, !.base_path = i]
          ELSE rest

RECURSIVE ScanBasePathsResetMissing(_, _, _, _)
\* the loop with missing_sources emptied for every directory: only the
\* paths missing under the last directory are kept
ScanBasePathsResetMissing(m, i, srcs, missing) ==
  IF i > NumBaseDirs
  THEN [valid_sources |-> FALSE, base_path |-> 0, srcs |-> srcs, missing |-> missing]
  ELSE LET srcs1 == WithSrc(m, srcs)
           src_files_exist == \A k \in 1..Len(srcs1) : Exists(i, srcs1[k])
       IN IF src_files_exist
          THEN [valid_sources |-> TRUE, base_path |-> i, srcs |-> srcs1,
                missing |-> missing]
          ELSE ScanBasePathsResetMissing(m, i + 1, srcs1,
                 SelectSeq(srcs1, LAMBDA x : ~Exists(i, x)))

RECURSIVE ScanBasePaths(_, _, _, _)
\* the loop "for bp_path in bp_paths" from directory i on; srcs is the
\* record's own list, which the loop extends in place
ScanBasePaths(m, i, srcs, missing) ==
  IF i > NumBaseDirs
  THEN [valid_sources |-> FALSE, base_path |-> 0, srcs |-> srcs, missing |-> missing]
  ELSE LET srcs1 == WithSrc(m, srcs)
           src_files_exist == \A k \in 1..Len(srcs1) : Exists(i, srcs1[k])
       IN IF src_files_exist
          THEN [valid_sources |-> TRUE, base_path |-> i, srcs |-> srcs1,
                missing |-> missing]
          ELSE ScanBasePaths(m, i + 1, srcs1,
                 missing \o SelectSeq(srcs1, LAMBDA x : ~Exists(i, x)))

FindBasePath ==
  /\ Running
  /\ pc = "start"
  /\ env.driver = "cc_binary_parser"
  /\ ~IsHeader(Cur)
  /\ LET r == ScanBasePaths(Cur, 1, configs[Cur].srcs, <<>>)
     IN /\ configs' = [configs EXCEPT ![Cur].srcs = r.srcs]
        /\ IF r.valid_sources
           THEN /\ base_path' = [base_path EXCEPT ![Cur] = r.base_path]
                /\ pc' = "resolved"
                /\ UNCHANGED <<pos, missing_sources, status>>
           ELSE /\ missing_sources' = [missing_sources EXCEPT ![Cur] = r.missing]
                /\ ModuleFailed(Cur, "skipped")
                /\ UNCHANGED base_path
  /\ UNCHANGED <<env, header_include_dirs, futures, results, obj_files, link_cmd,
                 reported, installs, fs, dest, parserVars, resolverVars, fixerVars>>


\* ------------------------------------------------------------------------
\* Compilation of one module (compile_library / compile_cc_binary)
\* ------------------------------------------------------------------------
\* repr of a config dict: what cc_library.main hands to compile_cc_binary
\* in place of a library name
ReprOf(m) ==
  CASE m = "H" -> "{config H}" [] m = "S" -> "{config S}"
    [] m = "L" -> "{config L}" [] m = "B1" -> "{config B1}"
    [] OTHER -> "{config B2}"

ReprSeq(seq) == [i \in 1..Len(seq) |-> ReprOf(seq[i])]

\* the shared_libs / static_libs the link step of module m iterates over
SharedLibsOf(m) ==
  IF IsBinary(m) /\ env.driver = "cc_library"
  THEN ReprSeq(SelectModules(AllConfigs, "cc_library_shared"))
  ELSE Config[m].shared_libs

StaticLibsOf(m) ==
  IF IsBinary(m) /\ env.driver = "cc_library"
  THEN ReprSeq(SelectModules(AllConfigs, "cc_library_static"))
  ELSE Config[m].static_libs

\* a driver that does not hand the collected header directories to libraries
HeaderDirsArgNone(m) ==
  IF IsBinary(m) /\ env.driver = "cc_binary_parser"
  THEN configs[m].export_include_dirs \o header_include_dirs
  ELSE <<>>

\* the header_include_dirs argument the driver passes for module m
HeaderDirsArg(m) ==
  IF IsBinary(m) /\ env.driver = "cc_binary_parser"
  THEN configs[m].export_include_dirs \o header_include_dirs
  ELSE header_include_dirs

\* include_dirs after include_dirs.extend(header_include_dirs)
IncludeDirs(m) == configs[m].export_include_dirs \o HeaderDirsArg(m)

\* the "-I" arguments of compile_source_file
IncludePath(include_dirs) ==
  [k \in 1..Len(include_dirs) |-> <<"build_top">> \o include_dirs[k]]

\* the base directory the module is compiled against
CompileBase(m) == IF env.driver = "cc_library" THEN env.home ELSE base_path[m]

\* executor.submit(compile_source_file, ...) for every entry of srcs
SubmitUnits(m, b, srcs, include_dirs) ==
  [i \in 1..Len(srcs) |->
     [src |-> srcs[i],
      obj_file |-> ObjFile(IntermediatesDir(m, b), b, srcs[i]),
      include_path |-> IncludePath(include_dirs),
      state |-> "queued"]]

Submit ==
  /\ Running
  /\ ~IsHeader(Cur)
  /\ \/ env.driver = "cc_binary_parser" /\ pc = "resolved"
     \/ env.driver = "cc_library" /\ pc = "start"
  /\ LET m == Cur
         b == CompileBase(m)
         srcs == WithSrc(m, configs[m].srcs)
         include_dirs == IncludeDirs(m)
     IN /\ configs' = [configs EXCEPT
                         ![m].srcs = srcs,
                         ![m].export_include_dirs =
                            IF Config[m].has_export_include_dirs
                            THEN include_dirs ELSE @]
        /\ base_path' = [base_path EXCEPT ![m] = b]
        /\ futures' = [futures EXCEPT ![m] = SubmitUnits(m, b, srcs, include_dirs)]
  /\ pc' = "compiling"
  /\ UNCHANGED <<env, header_include_dirs, pos, missing_sources, results,
                 obj_files, link_cmd, reported, status, installs, fs, dest, parserVars, resolverVars, fixerVars>>

UnitsIn(m, st) == {i \in 1..Len(futures[m]) : futures[m][i].state \in st}

Min(S) == CHOOSE x \in S : \A y \in S : x <= y

\* whether a pool worker may take the next queued unit
CanStart(m) ==
  /\ UnitsIn(m, {"queued"}) # {}
  /\ Cardinality(UnitsIn(m, {"running"})) < MaxWorkers

\* a pool worker takes the oldest queued work item and starts the compiler
UnitStart ==
  /\ Running
  /\ pc = "compiling"
  /\ CanStart(Cur)
  /\ futures' = [futures EXCEPT ![Cur][Min(UnitsIn(Cur, {"queued"}))].state = "running"]
  /\ UNCHANGED <<env, configs, header_include_dirs, pos, pc, base_path,
                 missing_sources, results, obj_files, link_cmd, reported, status,
                 installs, fs, dest, parserVars, resolverVars, fixerVars>>

\* the compiler of a running unit returns; the unit's future completes
UnitFinish ==
  /\ Running
  /\ pc = "compiling"
  /\ \E i \in UnitsIn(Cur, {"running"}) :
       /\ futures' = [futures EXCEPT ![Cur][i].state =
                        IF CompileFails(base_path[Cur], futures[Cur][i].src)
                        THEN "failed" ELSE "ok"]
       /\ results' = [results EXCEPT ![Cur] = Append(@, i)]
  /\ UNCHANGED <<env, configs, header_include_dirs, pos, pc, base_path,
                 missing_sources, obj_files, link_cmd, reported, status,
                 installs, fs, dest, parserVars, resolverVars, fixerVars>>

\* a pool that is not joined: units still queued are not waited for
AllUnitsDoneNoJoin(m) == UnitsIn(m, {"running"}) = {}

\* the pool has been joined: every submitted unit has completed
AllUnitsDone(m) == UnitsIn(m, {"queued", "running"}) = {}

\* an error check that looks at the first completed unit only
AnyUnitFailedFirstOnly(m) ==
  results[m] # <<>> /\ futures[m][results[m][1]].state = "failed"

\* "for success, obj_file in results: if not success: return"
AnyUnitFailed(m) == \E k \in 1..Len(results[m]) : futures[m][results[m][k]].state = "failed"

CheckResults ==
  /\ Running
  /\ pc = "compiling"
  /\ AllUnitsDone(Cur)
  /\ IF AnyUnitFailed(Cur)
     THEN /\ ModuleFailed(Cur, "compile_failed")
          /\ UNCHANGED obj_files
     ELSE /\ obj_files' = [obj_files EXCEPT ![Cur] =
                             [k \in 1..Len(results[Cur]) |->
                                futures[Cur][results[Cur][k]].obj_file]]
          /\ pc' = "link"
          /\ UNCHANGED <<pos, status>>
  /\ UNCHANGED <<env, configs, header_include_dirs, base_path, missing_sources,
                 futures, results, link_cmd, reported, installs, fs, dest, parserVars, resolverVars, fixerVars>>


\* ------------------------------------------------------------------------
\* Link / archive and install
\* ------------------------------------------------------------------------
LibPaths(names, lib_type) ==
  [i \in 1..Len(names) |-> get_library_path(names[i], lib_type)]

\* every library path is appended, whether its artifact exists or not
LibsAppendedAll(paths, fsys) == paths

\* "if os.path.exists(lib_path): link_cmd.append(lib_path)"
LibsAppended(paths, fsys) == SelectSeq(paths, LAMBDA p : p \in fsys)

\* "else: print(... does not exist)"
LibsReported(paths, fsys) == SelectSeq(paths, LAMBDA p : p \notin fsys)

\* the candidate library paths of module m, in the order its link step visits
\* them: link_executable takes static first, compile_library shared first
LibCandidates(m) ==
  IF IsStatic(m) THEN <<>>
  ELSE IF IsShared(m)
       THEN LibPaths(SharedLibsOf(m), "shared") \o LibPaths(StaticLibsOf(m), "static")
       ELSE LibPaths(StaticLibsOf(m), "static") \o LibPaths(SharedLibsOf(m), "shared")

LinkTool(m) == IF IsStatic(m) THEN "ar" ELSE "clangxx"

Link ==
  /\ Running
  /\ pc = "link"
  /\ LET m == Cur
         libs == LibsAppended(LibCandidates(m), fs)
         absent == LibsReported(LibCandidates(m), fs)
         ok == LinkerReturnsOk(m, absent = <<>>)
         output_file == OutputFile(m, base_path[m])
     IN /\ link_cmd' = [link_cmd EXCEPT ![m] =
                          [invoked |-> TRUE, tool |-> LinkTool(m),
                           output_file |-> output_file,
                           objs |-> obj_files[m], libs |-> libs,
                           returncode |-> IF ok THEN 0 ELSE 1]]
        /\ reported' = [reported EXCEPT ![m] = absent]
        /\ IF ok
           THEN /\ fs' = fs \cup {output_file}
                /\ pc' = "install"
                /\ UNCHANGED <<pos, status>>
           ELSE /\ ModuleFailed(m, "link_failed")
                /\ UNCHANGED fs
  /\ UNCHANGED <<env, configs, header_include_dirs, base_path, missing_sources,
                 futures, results, obj_files, installs, dest, parserVars, resolverVars, fixerVars>>

\* the files install_binary / install_library and the extra copy of a shared
\* library write
InstallTargets(m) ==
  IF IsBinary(m)
  THEN {OutputDir(Config[m].recovery_available, Config[m].vendor, FALSE) \o <<m>>}
  ELSE IF IsStatic(m)
       THEN {LibDestDir \o <<m, ".a">>}
       ELSE {LibDestDir \o <<m, ".so">>, get_library_path(m, "shared")}

Install ==
  /\ Running
  /\ pc = "install"
  /\ installs' = [installs EXCEPT ![Cur] = InstallTargets(Cur)]
  /\ fs' = fs \cup InstallTargets(Cur)
  /\ status' = [status EXCEPT ![Cur] = "installed"]
  /\ NextModule
  /\ UNCHANGED <<env, configs, header_include_dirs, base_path, missing_sources,
                 futures, results, obj_files, link_cmd, reported, dest, parserVars, resolverVars, fixerVars>>

Next ==
  \/ ProcessHeaderLibrary
  \/ FindBasePath
  \/ Submit
  \/ UnitStart
  \/ UnitFinish
  \/ CheckResults
  \/ Link
  \/ Install

Spec == Init /\ [][Next]_vars

\* ------------------------------------------------------------------------
\* The installers on their own: destination selection for every combination
\* of the module flags (specification SpecInstall)
\* ------------------------------------------------------------------------
Installers == {"cc_binary", "prebuilt_etc", "cc_library_static", "cc_library_shared"}

InstallInputs ==
  [installer : Installers, recovery : BOOLEAN, vendor : BOOLEAN,
   ramdisk : BOOLEAN, sub_dir : {"", "sub"}, done : {FALSE}, targets : {{}}]

\* the build driver is idle in SpecInstall
IdleEnv == [driver |-> "cc_library", home |-> 1, absent |-> NoSrc,
            unitFails |-> {}, ld |-> AllOk, stale |-> {}]

\* the build driver is idle while another component is examined
IdleBuild ==
  /\ env = IdleEnv
  /\ configs = [m \in Modules |-> [srcs |-> <<>>, export_include_dirs |-> <<>>]]
  /\ header_include_dirs = <<>>
  /\ pos = Len(Order) + 1
  /\ pc = "start"
  /\ base_path = [m \in Modules |-> 0]
  /\ missing_sources = [m \in Modules |-> <<>>]
  /\ futures = [m \in Modules |-> <<>>]
  /\ results = [m \in Modules |-> <<>>]
  /\ obj_files = [m \in Modules |-> <<>>]
  /\ link_cmd = [m \in Modules |-> NoLink]
  /\ reported = [m \in Modules |-> <<>>]
  /\ status = [m \in Modules |-> "pending"]
  /\ installs = [m \in Modules |-> {}]
  /\ fs = {}

InitInstall ==
  /\ dest \in InstallInputs
  /\ IdleBuild
  /\ IdleDefaults
  /\ IdleFix
  /\ IdleParse

\* compile_cc_binary: output_dir, then install_binary(output_file, output_dir, name)
InstallBinary ==
  /\ dest.installer = "cc_binary"
  /\ ~dest.done
  /\ dest' = [dest EXCEPT !.done = TRUE,
                !.targets = {OutputDir(dest.recovery, dest.vendor, FALSE) \o <<"name">>}]
  /\ UNCHANGED <<buildVars, parserVars, resolverVars, fixerVars>>

\* copy_prebuilt_etc_files: dest_dir, then shutil.copy(src_path, dest_path)
CopyPrebuiltEtc ==
  /\ dest.installer = "prebuilt_etc"
  /\ ~dest.done
  /\ dest' = [dest EXCEPT !.done = TRUE,
                !.targets = {PrebuiltDestDir(dest.vendor, dest.recovery,
                                             dest.ramdisk, dest.sub_dir)
                               \o <<"name">>}]
  /\ UNCHANGED <<buildVars, parserVars, resolverVars, fixerVars>>

\* compile_library: install_library, and the extra copy of a shared library
InstallLibrary ==
  /\ dest.installer \in {"cc_library_static", "cc_library_shared"}
  /\ ~dest.done
  /\ dest' = [dest EXCEPT !.done = TRUE,
                !.targets =
                   IF dest.installer = "cc_library_static"
                   THEN {LibDestDir \o <<"name", ".a">>}
                   ELSE {LibDestDir \o <<"name", ".so">>,
                         get_library_path("name", "shared")}]
  /\ UNCHANGED <<buildVars, parserVars, resolverVars, fixerVars>>

NextInstall ==
  \/ InstallBinary
  \/ CopyPrebuiltEtc
  \/ InstallLibrary

SpecInstall == InitInstall /\ [][NextInstall]_vars

\* the partition a destination path lies in
RootOf(path) ==
  CASE Head(path) \in {"target_recovery_out_usr_bin", "target_recovery_out_etc"}
         -> "recovery"
    [] Head(path) \in {"target_vendor_out_bin", "target_vendor_out_etc"} -> "vendor"
    [] Head(path) = "target_ramdisk_out" -> "ramdisk"
    [] Head(path) \in {"target_system_out_bin", "target_system_out_etc",
                       "target_system_out_lib", "target_system_out_lib64"}
         -> "system"
    [] OTHER -> Head(path)


\* ------------------------------------------------------------------------
\* The defaults resolver on its own (specification SpecDefaults):
\* apply_defaults on one target record, then the source-root resolution and
\* compile_library of the resolved record.
\*
\* A record is a function from property keys to values.  A value is a string,
\* a reference to a list object of the heap, or absent (key not in the dict).
\* Lists are objects: two records may hold the same list.
\* ------------------------------------------------------------------------
\* How many times apply_defaults is run on the same record.
MaxApply == 2

\* "config[key] = config[key] + value": the default's entries after the
\* local ones
ApplyKeyAppend(st, key, value) ==
  IF st.config[key].tag = "absent"
  THEN [st EXCEPT !.config[key] = value]
  ELSE IF st.config[key].tag = "list" /\ value.tag = "list"
       THEN LET hp == Append(st.heap, st.heap[st.config[key].ref] \o st.heap[value.ref])
            IN [config |-> [st.config EXCEPT ![key] = ListRef(Len(hp))], heap |-> hp]
       ELSE st

\* "config[key] = value" whenever the default has the key
ApplyKeyOverwrite(st, key, value) ==
  IF st.config[key].tag = "list" /\ value.tag = "list"
  THEN LET hp == Append(st.heap, st.heap[value.ref] \o st.heap[st.config[key].ref])
       IN [config |-> [st.config EXCEPT ![key] = ListRef(Len(hp))], heap |-> hp]
  ELSE [st EXCEPT !.config[key] = value]

\* one (key, value) of defaults.items(): an absent key is filled with the
\* default's value itself (the same list object); two lists are joined into
\* a new list, the default's entries first; anything else is left alone
ApplyKey(st, key, value) ==
  IF st.config[key].tag = "absent"
  THEN [st EXCEPT !.config[key] = value]
  ELSE IF st.config[key].tag = "list" /\ value.tag = "list"
       THEN LET hp == Append(st.heap, st.heap[value.ref] \o st.heap[st.config[key].ref])
            IN [config |-> [st.config EXCEPT ![key] = ListRef(Len(hp))], heap |-> hp]
       ELSE st

RECURSIVE ApplyItems(_, _, _)
\* "for key, value in defaults.items()" from the i-th key on
ApplyItems(st, defaults, i) ==
  IF i > Len(PropKeys) THEN st
  ELSE IF defaults[PropKeys[i]].tag = "absent"
       THEN ApplyItems(st, defaults, i + 1)
       ELSE ApplyItems(ApplyKey(st, PropKeys[i], defaults[PropKeys[i]]), defaults, i + 1)

RECURSIVE ApplyNamesStopAtUnknown(_, _, _)
\* the loop leaving at the first name that is not in the map
ApplyNamesStopAtUnknown(st, names, dmap) ==
  IF names = <<>> THEN st
  ELSE IF Head(names) \in DOMAIN dmap
       THEN ApplyNamesStopAtUnknown(ApplyItems(st, dmap[Head(names)], 1),
                                    Tail(names), dmap)
       ELSE st

RECURSIVE ApplyNamesLastFirst(_, _, _)
\* the names taken from the end of the list: the last listed default first
ApplyNamesLastFirst(st, names, dmap) ==
  IF names = <<>> THEN st
  ELSE IF Head(names) \in DOMAIN dmap
       THEN ApplyItems(ApplyNamesLastFirst(st, Tail(names), dmap),
                       dmap[Head(names)], 1)
       ELSE ApplyNamesLastFirst(st, Tail(names), dmap)

RECURSIVE ApplyNames(_, _, _)
\* "for defaults_name in defaults_names: if defaults_name in defaults_map"
ApplyNames(st, names, dmap) ==
  IF names = <<>> THEN st
  ELSE IF Head(names) \in DOMAIN dmap
       THEN ApplyNames(ApplyItems(st, dmap[Head(names)], 1), Tail(names), dmap)
       ELSE ApplyNames(st, Tail(names), dmap)

\* apply_defaults(config, defaults_map): works on the record in place and
\* returns it
apply_defaults(cfg, hp, dmap) ==
  LET st == [config |-> cfg, heap |-> hp]
      defaults_names == cfg["defaults"]
  IN IF defaults_names.tag = "absent" THEN st
     ELSE IF defaults_names.tag = "list"
          THEN ApplyNames(st, hp[defaults_names.ref], dmap)
          ELSE IF defaults_names.str \in DOMAIN dmap
               THEN ApplyItems(st, dmap[defaults_names.str], 1)
               ELSE st   \* prints a warning

\* the inputs: list objects 1..5 of the heap are the lists written in the
\* blueprint files
TargetDefaultsChoices ==
  {<<Absent, <<>>>>, <<Str("d1"), <<>>>>, <<Str("dx"), <<>>>>,
   <<ListRef(1), <<>>>>, <<ListRef(1), <<"d1">>>>, <<ListRef(1), <<"d1", "d2">>>>,
   <<ListRef(1), <<"d2", "d1">>>>, <<ListRef(1), <<"dx", "d1">>>>,
   <<ListRef(1), <<"d1", "dx", "d2">>>>}

TargetSrcsChoices ==
  {<<Absent, <<>>>>, <<ListRef(2), <<>>>>, <<ListRef(2), <<"t.c">>>>}

TargetIncChoices == {<<Absent, <<>>>>, <<ListRef(3), <<"tinc">>>>}

D1SrcsChoices ==
  {<<Absent, <<>>>>, <<ListRef(4), <<>>>>, <<ListRef(4), <<"a.c", "b.c">>>>}

D1IncChoices == {<<Absent, <<>>>>, <<ListRef(5), <<"dinc">>>>}

D2SrcsChoices == {<<Absent, <<>>>>, <<ListRef(6), <<"c.c">>>>}

\* the header include directories collected before the libraries compile
HeaderDirChoices == {<<>>, <<"hinc">>}

InitDefaults ==
  /\ IdleBuild
  /\ dest = NoInstall
  /\ IdleFix
  /\ IdleParse
  /\ \E td \in TargetDefaultsChoices, ts \in TargetSrcsChoices,
        ti \in TargetIncChoices, tsrc \in {Absent, Str("t1.c")},
        s1 \in D1SrcsChoices, i1 \in D1IncChoices, p1 \in {Absent, Str("p1.c")},
        s2 \in D2SrcsChoices, p2 \in {Absent, Str("p2.c")} :
       /\ heap = <<td[2], ts[2], ti[2], s1[2], i1[2], s2[2]>>
       /\ config = [k \in Range(PropKeys) |->
                      CASE k = "defaults" -> td[1] [] k = "srcs" -> ts[1]
                        [] k = "src" -> tsrc [] OTHER -> ti[1]]
       /\ defaults_map =
            [n \in DefaultsNames |->
               [k \in Range(PropKeys) |->
                  IF n = "d1"
                  THEN CASE k = "srcs" -> s1[1] [] k = "src" -> p1
                         [] k = "export_include_dirs" -> i1[1] [] OTHER -> Absent
                  ELSE CASE k = "srcs" -> s2[1] [] k = "src" -> p2
                         [] OTHER -> Absent]]
  /\ registered = [n \in DefaultsNames |-> Deref(defaults_map[n], heap)]
  /\ history = <<Deref(config, heap)>>
  /\ compiled = FALSE

\* main: "[apply_defaults(config, all_defaults_map) for config in ...]"
ApplyDefaults ==
  /\ Len(history) <= MaxApply
  /\ ~compiled
  /\ LET st == apply_defaults(config, heap, defaults_map)
     IN /\ config' = st.config
        /\ heap' = st.heap
        /\ history' = Append(history, Deref(st.config, st.heap))
  /\ UNCHANGED <<buildVars, dest, parserVars, fixerVars, defaults_map, registered, compiled>>

\* "srcs = config.get('srcs', []); if src: srcs.append(src)", run times times
\* on the same record: the list the record holds grows in place
SrcsAppended(cfg, hp, times) ==
  IF cfg["srcs"].tag = "list" /\ cfg["src"].tag = "str"
  THEN [hp EXCEPT ![cfg["srcs"].ref] =
          @ \o [i \in 1..times |-> cfg["src"].str]]
  ELSE hp

\* "include_dirs = config.get('export_include_dirs', []);
\*  include_dirs.extend(header_include_dirs)"
IncludeDirsExtended(cfg, hp, header_dirs) ==
  IF cfg["export_include_dirs"].tag = "list"
  THEN [hp EXCEPT ![cfg["export_include_dirs"].ref] = @ \o header_dirs]
  ELSE hp

\* find_base_path_and_compile on the resolved record: the manifest
\* directories are examined up to the first one holding every source (home;
\* NumBaseDirs + 1 when none does), then compile_library runs
FindBasePathAndCompile ==
  /\ Len(history) >= 2
  /\ ~compiled
  /\ \E home \in 1..(NumBaseDirs + 1), header_dirs \in HeaderDirChoices :
       LET valid_sources == home <= NumBaseDirs
           examined == IF valid_sources THEN home ELSE NumBaseDirs
           scanned == SrcsAppended(config, heap, examined)
       IN heap' = IF valid_sources
                  THEN IncludeDirsExtended(config,
                         SrcsAppended(config, scanned, 1), header_dirs)
                  ELSE scanned
  /\ compiled' = TRUE
  /\ UNCHANGED <<buildVars, dest, parserVars, fixerVars, config, defaults_map, registered, history>>

NextDefaults ==
  \/ ApplyDefaults
  \/ FindBasePathAndCompile

SpecDefaults == InitDefaults /\ [][NextDefaults]_vars

\* ------------------------------------------------------------------------
\* The fixed-point tree rewriter (specification SpecFix): bpfix.py
\*
\* A tree is the list of its module objects ("defs"); module objects live
\* in objs and are held by reference.  A module is its type tag and its
\* "properties" dict, which is missing, empty, or holds the one property
\* the extension steps work on.  Step lists are objects as well.
\* ------------------------------------------------------------------------
\* the cap of Fixer.fix
max_num_iterations == 20

ModuleTypes == {"java_import", "java_library_static", "java_library"}

\* "properties" of a module: no such key, {}, {"installable": true},
\* {"installable": false}
PropertyStates == {"none", "empty", "true", "false"}

Mod(t, p) == [type |-> t, properties |-> p]

\* get_property(mod, "installable"): None when the dict or the key is missing
get_property(mod) ==
  IF mod.properties \in {"none", "empty"} THEN "None" ELSE mod.properties

\* set_property(mod, "installable", value)
set_property(mod, value) == [mod EXCEPT !.properties = value]

\* remove_property(mod, "installable"): an emptied dict stays in the module
remove_property(mod) ==
  IF mod.properties \in {"true", "false"} THEN [mod EXCEPT !.properties = "empty"]
  ELSE mod

\* ------------------------------------------------------------------------
\* Module objects as json prints them (specification SpecPrint)
\*
\* A dict is the sequence of its entries in insertion order, which is the
\* order json.dumps writes them in.  A module is a dict with the keys
\* "type" and "properties"; a source is <<root, extension>>.
\* ------------------------------------------------------------------------
JVal(tag, b, s, items) == [tag |-> tag, b |-> b, s |-> s, items |-> items]

None == JVal("none", FALSE, "", <<>>)

JBool(b) == JVal("bool", b, "", <<>>)

JStr(s) == JVal("str", FALSE, s, <<>>)

\* a list or a dict, by its items or entries
JSeq(tag, items) == JVal(tag, FALSE, "", items)

\* the truth value Python gives a value in "if value:"
Truthy(v) ==
  CASE v.tag = "bool" -> v.b
    [] v.tag = "str" -> v.s # ""
    [] v.tag \in {"list", "dict"} -> v.items # <<>>
    [] OTHER -> FALSE

\* key in d
DictHas(d, key) == \E i \in DOMAIN d : d[i].k = key

\* d.get(key, default)
DictGet(d, key, default) ==
  IF DictHas(d, key) THEN d[CHOOSE i \in DOMAIN d : d[i].k = key].v ELSE default

\* d[key] = value: a key the dict holds keeps its place, a new key goes last
DictSet(d, key, value) ==
  IF DictHas(d, key)
  THEN [i \in DOMAIN d |-> IF d[i].k = key THEN [k |-> key, v |-> value] ELSE d[i]]
  ELSE Append(d, [k |-> key, v |-> value])

\* del d[key]
DictDel(d, key) == SelectSeq(d, LAMBDA e : e.k # key)

\* get_property(mod, property_name)
GetProperty(mod, property_name) ==
  DictGet(DictGet(mod, "properties", JSeq("dict", <<>>)).items, property_name, None)

\* set_property(mod, property_name, value)
SetProperty(mod, property_name, value) ==
  LET Assign(m) ==
        DictSet(m, "properties",
                JSeq("dict", DictSet(DictGet(m, "properties", None).items,
                                     property_name, value)))
  IN Assign(IF DictHas(mod, "properties") THEN mod
            ELSE DictSet(mod, "properties", JSeq("dict", <<>>)))

\* remove_property(mod, property_name)
RemoveProperty(mod, property_name) ==
  IF DictHas(mod, "properties")
  THEN DictSet(mod, "properties",
               JSeq("dict", DictDel(DictGet(mod, "properties", None).items,
                                    property_name)))
  ELSE mod

RECURSIVE RewriteSrcs(_, _, _)
\* "for src in srcs" of rewrite_incorrect_androidmk_prebuilts, from the
\* i-th source on; os.path.splitext(src)[-1] is the source's extension
RewriteSrcs(mod, srcs, i) ==
  IF i > Len(srcs.items) THEN mod
  ELSE RewriteSrcs(
         CASE srcs.items[i][2] = ".jar" ->
                RemoveProperty(SetProperty(mod, "jars", srcs), "srcs")
           [] srcs.items[i][2] = ".aar" ->
                RemoveProperty(DictSet(SetProperty(mod, "aars", srcs), "type",
                                       JStr("android_library_import")),
                               "installable")
           [] OTHER -> mod,
         srcs, i + 1)

\* rewrite_incorrect_androidmk_prebuilts on one module of the tree
rewrite_incorrect_androidmk_prebuilts(mod) ==
  LET Srcs(m) == IF Truthy(GetProperty(m, "srcs"))
                 THEN RewriteSrcs(m, GetProperty(m, "srcs"), 1) ELSE m
  IN IF DictGet(mod, "type", None) = JStr("java_import")
     THEN Srcs(IF Truthy(GetProperty(mod, "host"))
               THEN RemoveProperty(DictSet(mod, "type", JStr("java_import_host")),
                                   "host")
               ELSE mod)
     ELSE mod

\* the base step list
fix_steps == <<"rewriteIncorrectAndroidmkPrebuilts">>

\* the steps an extension may hold
ExtensionSteps ==
  {"rewriteJavaStaticLibs", "rewriteCtsModuleTypes", "rewriteJavaImports",
   "setInstallable", "clearInstallable", "removeInstallable", "toggleInstallable"}

\* fix_func called with the Fixer fails: rewrite_incorrect_androidmk_prebuilts
\* takes the tree and calls .get on its argument
RaisesAttributeError(step) == step = "rewriteIncorrectAndroidmkPrebuilts"

\* the effect of one step on one module of fixer.tree["defs"]
StepOnModule(step, mod) ==
  CASE step = "rewriteJavaStaticLibs" ->
         IF mod.type = "java_library_static"
         THEN [mod EXCEPT !.type = "java_library"] ELSE mod
    [] step = "rewriteJavaImports" ->
         IF mod.type = "java_import"
         THEN [mod EXCEPT !.type = "java_library_static"] ELSE mod
    [] step = "setInstallable" -> set_property(mod, "true")
    [] step = "clearInstallable" -> set_property(mod, "false")
    [] step = "removeInstallable" -> remove_property(mod)
    [] step = "toggleInstallable" ->
         set_property(mod, IF get_property(mod) = "true" THEN "false" ELSE "true")
    [] step = "removeHost" -> RemoveProperty(mod, "host")
    [] step = "setHost" -> SetProperty(mod, "host", JBool(TRUE))
    [] OTHER -> mod

\* extension names and patterns are sequences of name parts; re.match
\* anchors the pattern at the start of the name
ExtensionNames == {<<"ext", "a">>, <<"ext", "b">>}

Patterns == {<<"ext", "a">>, <<"ext">>, <<"other">>}

re_match(pattern, name) ==
  Len(pattern) <= Len(name) /\ SubSeq(name, 1, Len(pattern)) = pattern

Extension(name, steps) == [name |-> name, steps |-> steps]

StepSeqs == {<<s>> : s \in ExtensionSteps}
              \cup {<<s, t>> : s \in ExtensionSteps, t \in ExtensionSteps}

\* the registry as populated at process start
RegistryChoices ==
  {<<>>}
    \cup {<<Extension(<<"ext", "a">>, ss)>> : ss \in StepSeqs}
    \cup {<<Extension(<<"ext", "a">>, <<s>>), Extension(<<"ext", "b">>, <<t>>)>> :
            s \in ExtensionSteps, t \in ExtensionSteps}

\* the trees handed to Fixer
TreeChoices ==
  {<<>>}
    \cup {<<Mod(t, p)>> : t \in ModuleTypes, p \in PropertyStates}
    \cup {<<Mod("java_import", "none"), Mod("java_library_static", "true")>>}

\* a tree by value: what parser.print_tree serialises
TreeValue(tree, objects) == [i \in 1..Len(tree) |-> objects[tree[i]]]

\* Fixer.fingerprint: md5 of the serialised tree
fingerprint(tree, objects) == TreeValue(tree, objects)

\* "self.tree = tree": the Fixer works on the caller's module objects
NoCopy(tree, objects) == [tree |-> tree, objs |-> objects]

\* copy.deepcopy(tree): new module objects, appended to the object store
DeepCopy(tree, objects) ==
  [tree |-> [i \in 1..Len(tree) |-> Len(objects) + i],
   objs |-> objects \o [i \in 1..Len(tree) |-> objects[tree[i]]]]

\* "self.steps = fix_steps": the request works on the base step list
FixRequestInitShared(lists) == [lists |-> lists, steps |-> "fix_steps"]

\* FixRequest.__init__: "self.steps = []", a list of its own
FixRequestInit(lists) ==
  [lists |-> [lists EXCEPT !["request"] = <<>>], steps |-> "request"]

RECURSIVE MatchingStepsReversed(_, _)
\* the steps of the matching extensions, the last registered first
MatchingStepsReversed(extensions, pattern) ==
  IF extensions = <<>> THEN <<>>
  ELSE MatchingStepsReversed(Tail(extensions), pattern)
         \o (IF re_match(pattern, Head(extensions).name)
             THEN Head(extensions).steps ELSE <<>>)

RECURSIVE MatchingSteps(_, _)
\* the steps of the extensions whose name the pattern matches, registry order
MatchingSteps(extensions, pattern) ==
  IF extensions = <<>> THEN <<>>
  ELSE (IF re_match(pattern, Head(extensions).name)
        THEN Head(extensions).steps ELSE <<>>)
         \o MatchingSteps(Tail(extensions), pattern)

RECURSIVE AllExtensionSteps(_)
AllExtensionSteps(extensions) ==
  IF extensions = <<>> THEN <<>>
  ELSE Head(extensions).steps \o AllExtensionSteps(Tail(extensions))

\* the build driver and the resolver are idle while the rewriter runs
InitFix ==
  /\ IdleBuild
  /\ dest = NoInstall
  /\ IdleDefaults
  /\ fix_steps_extensions \in RegistryChoices
  /\ step_lists = [l \in {"fix_steps", "request"} |->
                     IF l = "fix_steps" THEN fix_steps ELSE <<>>]
  /\ \E t \in TreeChoices :
       /\ objs = t
       /\ caller = [tree |-> [i \in 1..Len(t) |-> i], original |-> t]
  /\ fixer = NoFixer
  /\ IdleParse

\* FixRequest()
NewFixRequest ==
  /\ fixer.pc \in {"idle", "returned", "raised"}
  /\ LET r == FixRequestInit(step_lists)
     IN /\ step_lists' = r.lists
        /\ fixer' = [fixer EXCEPT !.pc = "new", !.request = r.steps,
                                  !.calls = <<>>]
  /\ UNCHANGED <<buildVars, dest, parserVars, resolverVars, fix_steps_extensions, caller, objs>>

\* a builder method returns self: the request takes the next call of the
\* chain, or is complete
Called(method, pattern) ==
  [fixer EXCEPT !.calls = Append(@, [method |-> method, pattern |-> pattern]),
                !.pc = IF Len(fixer.calls) + 1 >= fixer.chain
                       THEN "request" ELSE "new"]

\* FixRequest.add_all
add_all ==
  /\ fixer.pc = "new"
  /\ LET with_base == [step_lists EXCEPT ![fixer.request] =
                         @ \o step_lists["fix_steps"]]
     IN step_lists' = [with_base EXCEPT ![fixer.request] =
                         @ \o AllExtensionSteps(fix_steps_extensions)]
  /\ fixer' = Called("add_all", <<>>)
  /\ UNCHANGED <<buildVars, dest, parserVars, resolverVars, fix_steps_extensions, caller, objs>>

\* FixRequest.add_base
add_base ==
  /\ fixer.pc = "new"
  /\ step_lists' = [step_lists EXCEPT ![fixer.request] =
                      @ \o step_lists["fix_steps"]]
  /\ fixer' = Called("add_base", <<>>)
  /\ UNCHANGED <<buildVars, dest, parserVars, resolverVars, fix_steps_extensions, caller, objs>>

\* FixRequest.add_matching_extensions
add_matching_extensions ==
  /\ fixer.pc = "new"
  /\ \E pattern \in Patterns :
       /\ step_lists' = [step_lists EXCEPT ![fixer.request] =
                           @ \o MatchingSteps(fix_steps_extensions, pattern)]
       /\ fixer' = Called("add_matching_extensions", pattern)
  /\ UNCHANGED <<buildVars, dest, parserVars, resolverVars, fix_steps_extensions, caller, objs>>

\* Fixer(tree), then the first lines of Fixer.fix: the fingerprint of the
\* clone before the first pass
NewFixer ==
  /\ fixer.pc = "request"
  \* the objects of an earlier Fixer are dropped from the store
  /\ LET c == DeepCopy(caller.tree, [i \in 1..Len(caller.tree) |-> objs[i]])
     IN /\ objs' = c.objs
        /\ fixer' = [fixer EXCEPT !.pc = "pass", !.tree = c.tree,
                       !.identifiers = <<fingerprint(c.tree, c.objs)>>,
                       !.passes = 0, !.step = 1, !.applied = <<>>, !.error = "",
                       !.calls = <<>>]
  /\ UNCHANGED <<buildVars, dest, parserVars, resolverVars, fix_steps_extensions, step_lists,
                 caller>>

\* fix_tree_once: "fix.fix_func(self)" for the next step of config.steps
FixStep ==
  /\ fixer.pc = "pass"
  /\ fixer.step <= Len(step_lists[fixer.request])
  /\ LET step == step_lists[fixer.request][fixer.step]
     IN IF RaisesAttributeError(step)
        THEN /\ fixer' = [fixer EXCEPT !.pc = "raised", !.error = "AttributeError",
                            !.applied = Append(@, step)]
             /\ UNCHANGED objs
        ELSE /\ objs' = [i \in 1..Len(objs) |->
                           IF i \in Range(fixer.tree)
                           THEN StepOnModule(step, objs[i]) ELSE objs[i]]
             /\ fixer' = [fixer EXCEPT !.step = @ + 1, !.applied = Append(@, step)]
  /\ UNCHANGED <<buildVars, dest, parserVars, resolverVars, fix_steps_extensions, step_lists,
                 caller>>

\* the comparison against the first fingerprint: prev_identifier never updated
ConvergedAgainstFirst(new_identifier, identifiers) ==
  new_identifier = identifiers[1]

\* the loop without its "break"
ConvergedNever(new_identifier, identifiers) == FALSE

\* "if new_identifier == prev_identifier"
Converged(new_identifier, identifiers) ==
  new_identifier = identifiers[Len(identifiers)]

\* the end of one pass of Fixer.fix: fingerprint, comparison, break, next
\* pass, or the for-else raise
PassEnd ==
  /\ fixer.pc = "pass"
  /\ fixer.step > Len(step_lists[fixer.request])
  /\ LET new_identifier == fingerprint(fixer.tree, objs)
         passes == fixer.passes + 1
     IN fixer' =
          IF Converged(new_identifier, fixer.identifiers)
          THEN [fixer EXCEPT !.pc = "returned", !.passes = passes,
                  !.identifiers = Append(@, new_identifier)]
          ELSE IF passes = max_num_iterations
               THEN [fixer EXCEPT !.pc = "raised", !.error = "RuntimeError",
                       !.passes = passes,
                       !.identifiers = Append(@, new_identifier)]
               ELSE [fixer EXCEPT !.passes = passes, !.step = 1, !.applied = <<>>,
                       !.identifiers = Append(@, new_identifier)]
  /\ UNCHANGED <<buildVars, dest, parserVars, resolverVars, fix_steps_extensions, step_lists,
                 caller, objs>>

NextFix ==
  \/ NewFixRequest
  \/ add_all
  \/ add_base
  \/ add_matching_extensions
  \/ NewFixer
  \/ FixStep
  \/ PassEnd

SpecFix == InitFix /\ [][NextFix]_vars

\* ------------------------------------------------------------------------
\* Specification SpecRequest: a FixRequest built by a chain of builder calls
\* ------------------------------------------------------------------------
\* number of builder calls in a chain
MaxCalls == 2

InitRequest ==
  /\ IdleBuild
  /\ dest = NoInstall
  /\ IdleDefaults
  /\ IdleParse
  /\ fix_steps_extensions \in RegistryChoices
  /\ step_lists = [l \in {"fix_steps", "request"} |->
                     IF l = "fix_steps" THEN fix_steps ELSE <<>>]
  /\ objs = <<>>
  /\ caller = [tree |-> <<>>, original |-> <<>>]
  /\ \E n \in 1..MaxCalls : fixer = [NoFixer EXCEPT !.chain = n]

NextRequest ==
  \/ NewFixRequest
  \/ add_all
  \/ add_base
  \/ add_matching_extensions

SpecRequest == InitRequest /\ [][NextRequest]_vars

\* ------------------------------------------------------------------------
\* Specification SpecPrint: the rewriter on module objects with their
\* properties in insertion order
\* ------------------------------------------------------------------------
\* a module object: {"type": type, "properties": {...}} with the properties
\* in the given order
JMod(type, properties) ==
  <<[k |-> "type", v |-> JStr(type)],
    [k |-> "properties", v |-> JSeq("dict", properties)]>>

\* the trees handed to Fixer; the last one is the input of main
PrintTreeChoices ==
  LET host(b) == [k |-> "host", v |-> JBool(b)]
      srcs(root, ext) == [k |-> "srcs", v |-> JSeq("list", <<<<root, ext>>>>)]
      installable == [k |-> "installable", v |-> JBool(TRUE)]
  IN {<<JMod("java_import", <<host(TRUE), srcs("example", ".jar")>>)>>,
      <<JMod("java_import", <<srcs("example", ".jar"), host(TRUE)>>)>>,
      <<JMod("java_import", <<host(FALSE), installable, srcs("example", ".aar")>>)>>,
      <<JMod("java_library", <<host(TRUE), srcs("a", ".java")>>)>>,
      <<<<[k |-> "type", v |-> JStr("java_library")]>>>>,
      <<JMod("java_import", <<host(TRUE), srcs("example", ".jar")>>),
        JMod("java_import", <<host(FALSE), srcs("example", ".aar")>>)>>}

\* the steps of the extension registered at process start: steps that call
\* remove_property and set_property on every module, and the placeholder
PrintRegistryChoices ==
  LET steps == {"removeHost", "setHost", "rewriteCtsModuleTypes"}
  IN {<<>>}
       \cup {<<Extension(<<"ext", "a">>, <<a>>)>> : a \in steps}
       \cup {<<Extension(<<"ext", "a">>, <<a, b>>)>> : a \in steps, b \in steps}

InitPrint ==
  /\ IdleBuild
  /\ dest = NoInstall
  /\ IdleDefaults
  /\ IdleParse
  /\ fix_steps_extensions \in PrintRegistryChoices
  /\ step_lists = [l \in {"fix_steps", "request"} |->
                     IF l = "fix_steps" THEN fix_steps ELSE <<>>]
  /\ \E t \in PrintTreeChoices :
       /\ objs = t
       /\ caller = [tree |-> [i \in 1..Len(t) |-> i], original |-> t]
  /\ fixer = NoFixer

\* rewrite_incorrect_androidmk_prebuilts(tree), called on the caller's tree
\* before a Fixer is made of it
RewriteIncorrectAndroidmkPrebuilts ==
  /\ fixer.pc = "idle"
  /\ objs' = [i \in 1..Len(objs) |-> rewrite_incorrect_androidmk_prebuilts(objs[i])]
  /\ caller' = [caller EXCEPT !.original = objs']
  /\ UNCHANGED <<buildVars, dest, parserVars, resolverVars, fix_steps_extensions,
                 step_lists, fixer>>

NextPrint ==
  \/ RewriteIncorrectAndroidmkPrebuilts
  \/ NewFixRequest
  \/ add_all
  \/ add_base
  \/ add_matching_extensions
  \/ NewFixer
  \/ FixStep
  \/ PassEnd

SpecPrint == InitPrint /\ [][NextPrint]_vars

\* ------------------------------------------------------------------------
\* The blueprint parser (specification SpecParse)
\* ------------------------------------------------------------------------
\* A blueprint text is a sequence of tokens [k, v, lead, n, l]:
\*   k = "word"  an identifier or number v; lead is the longest prefix of v
\*               that is true, false or a digit sequence ("" if none) and n
\*               the number a digit prefix denotes
\*   k = "str"   the string literal "v"
\*   k = "list"  a bracketed list [ ... ]; l holds what is between the
\*               brackets: "str", "word", "//" and "nl" tokens (the commas
\*               between the elements are implied)
\*   k = "{", "}", ":", ",", "+"   the punctuation
\*   k = "//"    the comment marker, k = "nl" the end of a line
\* White space other than the end of a line is implied between tokens.
\* The parser works on the text with two regular expressions; they are
\* modelled by what they match on the token sequence.
Tok(k, v) == [k |-> k, v |-> v, lead |-> "", n |-> 0, l |-> <<>>]

\* number of blueprint paths a manifest lists at most
MaxFiles == 2

\* the blueprint files of the source tree: path -> text
BpFiles ==
  LET W(v) == Tok("word", v)
      S(v) == Tok("str", v)
      L(e) == [Tok("list", "") EXCEPT !.l = e]
      Lit(v, lead, n) == [Tok("word", v) EXCEPT !.lead = lead, !.n = n]
      LB == Tok("{", "")
      RB == Tok("}", "")
      C  == Tok(":", "")
      K  == Tok(",", "")
      NL == Tok("nl", "")
      P(key, val) == <<W(key), C, val, K>>
      Blk(type, body) == <<W(type), LB>> \o body \o <<RB, NL>>
  IN [f \in {"ok.bp", "libs.bp", "teams.bp", "unclosed.bp", "empty.bp",
             "concat.bp", "ref.bp", "refonly.bp", "comment.bp", "nested.bp",
             "defs.bp"} |->
       CASE f = "ok.bp" ->
              Blk("cc_library_headers",
                  P("name", S("hdr")) \o P("export_include_dirs", L(<<S("inc")>>)))
              \o Blk("cc_defaults", P("name", S("d")) \o P("cflags", L(<<S("-O2")>>)))
              \o Blk("cc_binary", P("name", S("app")) \o P("srcs", L(<<S("a.c")>>)))
         [] f = "libs.bp" ->
              Blk("cc_library_shared",
                  P("name", S("so")) \o P("library_type", S("shared")))
              \o Blk("cc_library_shared", P("name", S("so2")))
              \o Blk("cc_library", P("name", S("lib")))
              \o Blk("filegroup", P("name", S("fg")))
         [] f = "teams.bp" ->
              Blk("fake", P("name", S("main_test")) \o P("team", S("someteam")))
              \o Blk("team", P("name", S("someteam"))
                             \o P("trendy_team_id", S("cool_team")))
              \o Blk("fake", P("name", S("noteam")))
         \* the first block is never closed
         [] f = "unclosed.bp" ->
              <<W("cc_binary"), LB>> \o P("name", S("lost")) \o <<NL>>
              \o Blk("cc_library_static", P("name", S("kept")))
         \* the second block has no property
         [] f = "empty.bp" ->
              Blk("cc_binary", P("name", S("app2"))) \o Blk("package", <<>>)
         \* srcs: ["a.c"] + ["b.c"],  static_libs: ["x"] + more_libs,
         [] f = "concat.bp" ->
              Blk("cc_binary",
                  P("name", S("cat"))
                  \o <<W("srcs"), C, L(<<S("a.c")>>), Tok("+", ""),
                       L(<<S("b.c")>>), K>>
                  \o <<W("static_libs"), C, L(<<S("x")>>), Tok("+", ""),
                       W("more_libs"), K>>)
         \* cflags: common_flags,  vendor: true_vendor,
         [] f = "ref.bp" ->
              Blk("cc_binary",
                  P("name", S("r")) \o P("cflags", W("common_flags"))
                  \o P("vendor", Lit("true_vendor", "true", 0)))
         \* a defaults record named as the cc_defaults record of ok.bp
         [] f = "defs.bp" ->
              Blk("defaults", P("name", S("d")) \o P("cflags", L(<<S("-O0")>>)))
         \* stl: none,
         [] f = "refonly.bp" -> Blk("cc_defaults", P("stl", W("none")))
         \* a commented-out property, a comment with words only, and a
         \* comment inside a list
         [] f = "comment.bp" ->
              Blk("cc_binary",
                  <<NL>> \o P("name", S("c"))
                  \o <<Tok("//", ""), W("the"), W("old"), W("stem"), NL>>
                  \o <<Tok("//", "")>> \o P("stem", S("v")) \o <<NL>>
                  \o P("srcs", L(<<S("a.c"), Tok("//", ""), W("main"), NL,
                                   S("b.c")>>)))
         \* a nested block, a boolean and a number
         [] OTHER ->
              Blk("cc_binary",
                  P("name", S("n"))
                  \o <<W("target"), C, LB>>
                  \o P("enabled", Lit("false", "false", 0))
                  \o <<RB, K>>
                  \o P("count", Lit("12", "12", 12)))]

\* the first index from j on whose token is (member) or is not (~member) of
\* one of the kinds; an index beyond the text if there is none
RECURSIVE NextIndex(_, _, _, _)
NextIndex(text, j, kinds, member) ==
  IF j > Len(text) \/ (text[j].k \in kinds) = member THEN j
  ELSE NextIndex(text, j + 1, kinds, member)

\* re.sub(r'//.*$', '', value, flags=re.MULTILINE): the text without what
\* stands between a comment marker and the end of its line
RECURSIVE StripComments(_)
StripComments(text) ==
  IF text = <<>> THEN <<>>
  ELSE IF Head(text).k = "//"
       THEN StripComments(SubSeq(text, NextIndex(text, 1, {"nl"}, TRUE), Len(text)))
       ELSE <<Head(text)>> \o StripComments(Tail(text))

\* the block pattern  (\w+)\s*\{([^{}]*?(?:\{[^{}]*\}[^{}]*)*?)\}  from the
\* token after the opening brace: the index of the closing brace, 0 if the
\* pattern does not match (the text ends, or a third brace level opens)
RECURSIVE BlockEnd(_, _, _)
BlockEnd(text, j, depth) ==
  IF j > Len(text) THEN 0
  ELSE IF text[j].k = "{"
       THEN IF depth = 1 THEN 0 ELSE BlockEnd(text, j + 1, 1)
  ELSE IF text[j].k = "}"
       THEN IF depth = 1 THEN BlockEnd(text, j + 1, 0) ELSE j
  ELSE BlockEnd(text, j + 1, depth)

\* pattern.findall(content): the non-overlapping matches from token i on, as
\* (block_type, block_content); b is the token after the block type, e the
\* closing brace of the match
RECURSIVE findall_blocks(_, _)
findall_blocks(text, i) ==
  LET Found(b, e) ==
        IF e = 0 THEN findall_blocks(text, i + 1)
        ELSE <<[type |-> text[i].v, content |-> SubSeq(text, b + 1, e - 1)]>>
               \o findall_blocks(text, e + 1)
      Match(b) ==
        Found(b, IF text[i].k = "word" /\ b <= Len(text) /\ text[b].k = "{"
                 THEN BlockEnd(text, b + 1, 0) ELSE 0)
  IN IF i > Len(text) THEN <<>>
     ELSE Match(NextIndex(text, i + 1, {"nl"}, FALSE))

\* key_value_pattern.findall(block_content) with the pattern
\*   (\w+)\s*:\s*(\[[^\]]*\]|\{[^\}]*\}|"[^"]*"|true|false|\d+)
\* the non-overlapping matches from token i on, as (key, value); the value is
\* the matched text: a list, a string, the text from an opening brace to the
\* first closing brace, or the true/false/digit prefix of a word; c is the
\* token after the key, v the token after the colon, e the end of the match
RECURSIVE findall_key_values(_, _)
findall_key_values(content, i) ==
  LET Found(v, e) ==
        IF e = 0 THEN findall_key_values(content, i + 1)
        ELSE <<[key |-> content[i].v, value |-> SubSeq(content, v, e)]>>
               \o findall_key_values(content, e + 1)
      Closed(close) == IF close <= Len(content) THEN close ELSE 0
      Match(c, v) ==
        Found(v, IF content[i].k = "word" /\ v <= Len(content)
                    /\ content[c].k = ":"
                 THEN CASE content[v].k \in {"list", "str"} -> v
                        [] content[v].k = "{" ->
                             Closed(NextIndex(content, v + 1, {"}"}, TRUE))
                        [] content[v].k = "word" /\ content[v].lead # "" -> v
                        [] OTHER -> 0
                 ELSE 0)
      Colon(c) == Match(c, NextIndex(content, c + 1, {"nl"}, FALSE))
  IN IF i > Len(content) THEN <<>>
     ELSE Colon(NextIndex(content, i + 1, {"nl"}, FALSE))

\* a parsed value; a dict is a function from its keys to values (the order
\* in which a dict holds its keys is not modelled)
Value(tag, str, num, items, props) ==
  [tag |-> tag, str |-> str, num |-> num, items |-> items, props |-> props]

\* what a function returns: ok = FALSE when it raises BlueprintParseException
Raise == [ok |-> FALSE, val |-> Value("", "", 0, <<>>, <<>>)]

\* parse_list: comments are removed, the rest is decoded as JSON; a bare
\* identifier among the elements is not JSON
parse_list(value) ==
  LET Decode(elems) ==
        IF \E n \in 1..Len(elems) :
             elems[n].k # "str" /\ elems[n].lead # elems[n].v
        THEN Raise
        ELSE [ok |-> TRUE,
              val |-> Value("list", "", 0, [n \in 1..Len(elems) |-> elems[n].v],
                            <<>>)]
  IN Decode(SelectSeq(StripComments(value.l), LAMBDA t : t.k # "nl"))

\* process_key_value_pairs with process_value, and parse_nested_block for a
\* value that starts with a brace: every match is converted and stored under
\* its key; a later match of a key replaces the earlier one
RECURSIVE process_key_value_pairs(_, _)
process_key_value_pairs(matches, block_dict) ==
  LET Store(key, processed_value) ==
        IF ~processed_value.ok THEN Raise
        ELSE process_key_value_pairs(Tail(matches),
                                     (key :> processed_value.val) @@ block_dict)
      parse_nested_block(nested) ==
        IF nested = <<>> THEN Raise ELSE process_key_value_pairs(nested, <<>>)
      process_value(value) ==
        CASE value[1].k = "list" -> parse_list(value[1])
          [] value[1].k = "{" -> parse_nested_block(findall_key_values(value, 1))
          [] value[1].k = "str" ->
               [ok |-> TRUE, val |-> Value("str", value[1].v, 0, <<>>, <<>>)]
          [] value[1].lead \in {"true", "false"} ->
               [ok |-> TRUE, val |-> Value("bool", value[1].lead, 0, <<>>, <<>>)]
          [] OTHER ->
               [ok |-> TRUE, val |-> Value("int", "", value[1].n, <<>>, <<>>)]
  IN IF matches = <<>>
     THEN [ok |-> TRUE, val |-> Value("block", "", 0, <<>>, block_dict)]
     ELSE Store(Head(matches).key, process_value(Head(matches).value))

\* parse_block: {"type": block_type} filled with the block's properties; a
\* block without a match raises (check_src_files only logs)
parse_block(block_type, block_content) ==
  LET Fill(matches) ==
        IF matches = <<>> THEN Raise
        ELSE process_key_value_pairs(
               matches, "type" :> Value("str", block_type, 0, <<>>, <<>>))
  IN Fill(findall_key_values(block_content, 1))

\* parse_blueprint_file: the records of the matched blocks, in text order;
\* raises when the file cannot be opened, when no block matches, and when a
\* block raises
parse_blueprint_file(file_path) ==
  LET Collect(blocks) ==
        IF blocks = <<>> \/ \E n \in 1..Len(blocks) : ~blocks[n].ok
        THEN [ok |-> FALSE, configs |-> <<>>]
        ELSE [ok |-> TRUE,
              configs |-> [n \in 1..Len(blocks) |-> blocks[n].val.props]]
      Parse(matches) ==
        Collect([n \in 1..Len(matches) |->
                   parse_block(matches[n].type, matches[n].content)])
  IN Parse(IF file_path \in DOMAIN BpFiles
           THEN findall_blocks(BpFiles[file_path], 1) ELSE <<>>)

\* parse_module_info_file: the records of every listed file, in manifest
\* order; raises on an empty manifest, on a listed path that does not exist
\* and when a file raises
RECURSIVE parse_module_info_file(_)
parse_module_info_file(bp_paths) ==
  LET Extend(file_configs, rest) ==
        IF ~file_configs.ok \/ ~rest.ok THEN [ok |-> FALSE, configs |-> <<>>]
        ELSE [ok |-> TRUE, configs |-> file_configs.configs \o rest.configs]
  IN IF bp_paths = <<>> THEN [ok |-> FALSE, configs |-> <<>>]
     ELSE Extend(parse_blueprint_file(Head(bp_paths)),
                 IF Len(bp_paths) = 1 THEN [ok |-> TRUE, configs |-> <<>>]
                 ELSE parse_module_info_file(Tail(bp_paths)))

\* all_teams.parse_blueprint_modules: a listed path that does not exist is
\* skipped; when a file raises, the loop ends and the records collected so
\* far are returned; every record is given its blueprint_file
RECURSIVE parse_blueprint_modules(_)
parse_blueprint_modules(bp_paths) ==
  LET Extend(bp_path, file_configs) ==
        IF bp_path \notin DOMAIN BpFiles
        THEN parse_blueprint_modules(Tail(bp_paths))
        ELSE IF ~file_configs.ok THEN <<>>
        ELSE [n \in 1..Len(file_configs.configs) |->
                ("blueprint_file" :> Value("str", bp_path, 0, <<>>, <<>>))
                  @@ file_configs.configs[n]]
               \o parse_blueprint_modules(Tail(bp_paths))
  IN IF bp_paths = <<>> THEN <<>>
     ELSE Extend(Head(bp_paths), parse_blueprint_file(Head(bp_paths)))

\* ------------------------------------------------------------------------
\* Consumers of the parsed records
\* ------------------------------------------------------------------------
\* the indices of the records that are wanted, in list order
SelectIndices(records, wanted) ==
  SelectSeq([n \in 1..Len(records) |-> n], LAMBDA n : n \in wanted)

\* AllTeamsSingleton.generate_build_actions with collect_all_teams: the
\* exported {"teams": [...]}: one entry per name of a team record, in the
\* order the names were first seen, holding the last record of that name
collect_all_teams(modules) ==
  LET IsTeam(n) == /\ "blueprint_file" \in DOMAIN modules[n]
                   /\ modules[n]["type"].str = "team"
      team_names == SelectSeq([n \in 1..Len(modules) |-> n],
                      LAMBDA n : /\ IsTeam(n)
                                 /\ \A m \in 1..(n - 1) :
                                      IsTeam(m) => modules[m]["name"] # modules[n]["name"])
      Last(n) == CHOOSE m \in n..Len(modules) :
                   /\ IsTeam(m) /\ modules[m]["name"] = modules[n]["name"]
                   /\ \A q \in (m + 1)..Len(modules) :
                        IsTeam(q) => modules[q]["name"] # modules[n]["name"]
      Get(record, key) == IF key \in DOMAIN record THEN record[key]
                          ELSE Value("str", "", 0, <<>>, <<>>)
  IN [n \in 1..Len(team_names) |->
        LET team_properties == modules[Last(team_names[n])]
        IN [trendy_team_id |-> Get(team_properties, "trendy_team_id"),
            name |-> team_properties["name"],
            path |-> Get(team_properties, "blueprint_file")]]

\* "defaults_map[config['name']] = config" for the records of one type: a
\* name is mapped to (the index of) the last record of that type and name
NamedRecords(all_configs, type) ==
  LET Typed(n) == all_configs[n]["type"].str = type
      Last(name) == CHOOSE n \in DOMAIN all_configs :
                      /\ Typed(n) /\ all_configs[n]["name"].str = name
                      /\ \A m \in DOMAIN all_configs :
                           (Typed(m) /\ all_configs[m]["name"].str = name) => m <= n
  IN [name \in {all_configs[n]["name"].str :
                  n \in {m \in DOMAIN all_configs : Typed(m)}} |-> Last(name)]

\* "{**cc_defaults_map, **defaults_map}": on a shared name the defaults record
all_defaults_map_defaults_last(all_configs) ==
  NamedRecords(all_configs, "defaults") @@ NamedRecords(all_configs, "cc_defaults")

\* "all_defaults_map = {**defaults_map, **cc_defaults_map}": on a shared name
\* the entry of cc_defaults_map replaces the entry of defaults_map
all_defaults_map(all_configs) ==
  NamedRecords(all_configs, "cc_defaults") @@ NamedRecords(all_configs, "defaults")

\* main_build.compile_modules_for_packages: the lists the records are sorted
\* into by config['type'], and the lists handed to a compile function with
\* the library_type they are handed over with (compile_cc_binaries is not
\* given cc_binary_configs)
compile_modules_for_packages(all_configs) ==
  LET OfType(type) == SelectIndices(all_configs,
                        {n \in DOMAIN all_configs : all_configs[n]["type"].str = type})
      Handed(type, library_type) ==
        [n \in 1..Len(OfType(type)) |->
           [index |-> OfType(type)[n], library_type |-> library_type]]
  IN [placed |-> [b \in {"defaults", "cc_defaults", "cc_library_static",
                         "cc_library_shared", "cc_library_headers", "cc_library",
                         "cc_binary", "prebuilt_etc_xml"} |-> OfType(b)],
      compiled |-> Handed("cc_library_headers", "headers")
                     \o Handed("cc_library_static", "static")
                     \o Handed("cc_library_shared", "shared")
                     \o Handed("cc_library", "library"),
      lookup |-> all_defaults_map(all_configs)]

\* cc_library.main: the lists the records are sorted into by
\* config.get('library_type'), and the records handed to
\* process_header_library, compile_library and compile_cc_binary
cc_library_main(all_configs) ==
  LET LibraryType(c) == IF "library_type" \in DOMAIN c /\ c["library_type"].tag = "str"
                        THEN c["library_type"].str ELSE ""
      Typed(types) == SelectIndices(all_configs,
                        {n \in DOMAIN all_configs : LibraryType(all_configs[n]) \in types})
      shared_libs == Typed({"shared"})
      static_libs == Typed({"static"})
      header_libs == Typed({"headers"})
      binaries == SelectIndices(all_configs,
                    {n \in DOMAIN all_configs :
                       LibraryType(all_configs[n]) \notin {"shared", "static", "headers"}})
      Handed(list, library_type) ==
        [n \in 1..Len(list) |-> [index |-> list[n], library_type |-> library_type]]
  IN [placed |-> [b \in {"shared_libs", "static_libs", "header_libs", "binaries"} |->
                    CASE b = "shared_libs" -> shared_libs
                      [] b = "static_libs" -> static_libs
                      [] b = "header_libs" -> header_libs
                      [] OTHER -> binaries],
      compiled |-> Handed(header_libs, "headers") \o Handed(shared_libs, "shared")
                     \o Handed(static_libs, "static") \o Handed(binaries, "binary")]

\* bpfix.simplify_known_properties_duplicating_each_other: the body is pass
simplify_known_properties_duplicating_each_other(mod) == mod

\* bpfix.run_patch_list_mod(mod_func)(fixer): the wrapper's body is pass,
\* mod_func (named here by its name) is never called
run_patch_list_mod(mod_func, mod) == mod

\* ------------------------------------------------------------------------
\* Specification SpecParse: one parser or patch-list call, then the consumers
\* ------------------------------------------------------------------------
InitParse ==
  /\ IdleBuild
  /\ dest = NoInstall
  /\ IdleDefaults
  /\ IdleFix
  \* the manifest lists blueprint files and a path that does not exist
  /\ module_info \in UNION {[1..n -> DOMAIN BpFiles \cup {"missing.bp"}] :
                              n \in 1..MaxFiles}
  /\ parsed = [op |-> "", file |-> "", ok |-> TRUE, configs |-> <<>>]
  /\ all_teams = [done |-> FALSE, teams |-> <<>>]
  /\ buckets = [driver |-> "", placed |-> <<>>, compiled |-> <<>>,
               lookup |-> <<>>]
  /\ patch = [pc |-> "idle", before |-> <<>>, mod |-> <<>>]

\* parse_blueprint_file on one of the listed paths
ParseBlueprintFile ==
  /\ parsed.op = "" /\ patch.pc = "idle"
  /\ \E n \in 1..Len(module_info) :
       \E r \in {parse_blueprint_file(module_info[n])} :
         parsed' = [op |-> "parse_blueprint_file", file |-> module_info[n],
                    ok |-> r.ok, configs |-> r.configs]
  /\ UNCHANGED <<buildVars, dest, resolverVars, fixerVars, module_info, all_teams,
                 buckets, patch>>

\* blueprint_parser.parse_module_info_file on the manifest
ParseModuleInfoFile ==
  /\ parsed.op = "" /\ patch.pc = "idle"
  /\ \E r \in {parse_module_info_file(module_info)} :
       parsed' = [op |-> "parse_module_info_file", file |-> "MODULE_INFO",
                  ok |-> r.ok, configs |-> r.configs]
  /\ UNCHANGED <<buildVars, dest, resolverVars, fixerVars, module_info, all_teams,
                 buckets, patch>>

\* all_teams.parse_blueprint_modules on the manifest
ParseBlueprintModules ==
  /\ parsed.op = "" /\ patch.pc = "idle"
  /\ parsed' = [op |-> "parse_blueprint_modules", file |-> "MODULE_INFO",
                ok |-> TRUE, configs |-> parse_blueprint_modules(module_info)]
  /\ UNCHANGED <<buildVars, dest, resolverVars, fixerVars, module_info, all_teams,
                 buckets, patch>>

\* AllTeamsSingleton.generate_build_actions on the modules of the manifest
GenerateBuildActions ==
  /\ parsed.op = "parse_blueprint_modules"
  /\ ~all_teams.done
  /\ all_teams' = [done |-> TRUE, teams |-> collect_all_teams(parsed.configs)]
  /\ UNCHANGED <<buildVars, dest, resolverVars, fixerVars, module_info, parsed,
                 buckets, patch>>

\* main_build.compile_modules_for_packages on the records of the manifest
CompileModulesForPackages ==
  /\ parsed.op = "parse_module_info_file" /\ parsed.ok
  /\ buckets.driver = ""
  /\ \E r \in {compile_modules_for_packages(parsed.configs)} :
       buckets' = [driver |-> "main_build", placed |-> r.placed,
                   compiled |-> r.compiled, lookup |-> r.lookup]
  /\ UNCHANGED <<buildVars, dest, resolverVars, fixerVars, module_info, parsed,
                 all_teams, patch>>

\* cc_library.main on the records of the manifest
CcLibraryMain ==
  /\ parsed.op = "parse_module_info_file" /\ parsed.ok
  /\ buckets.driver = ""
  /\ \E r \in {cc_library_main(parsed.configs)} :
       buckets' = [driver |-> "cc_library", placed |-> r.placed,
                   compiled |-> r.compiled, lookup |-> <<>>]
  /\ UNCHANGED <<buildVars, dest, resolverVars, fixerVars, module_info, parsed,
                 all_teams, patch>>

\* simplify_known_properties_duplicating_each_other on a module with
\* local_include_dirs and export_include_dirs, called on the module or
\* through run_patch_list_mod
RunPatchListMod ==
  /\ parsed.op = "" /\ patch.pc = "idle"
  /\ \E local, export \in {<<>>, <<"include1">>, <<"include2">>,
                           <<"include1", "include2">>, <<"include2", "include1">>,
                           <<"include1", "include2", "include3">>} :
       \E mod \in {[local_include_dirs |-> local, export_include_dirs |-> export]} :
         \E wrapped \in BOOLEAN :
           patch' = [pc |-> "done", before |-> mod,
                     mod |-> IF wrapped
                             THEN run_patch_list_mod(
                                    "simplify_known_properties_duplicating_each_other", mod)
                             ELSE simplify_known_properties_duplicating_each_other(mod)]
  /\ UNCHANGED <<buildVars, dest, resolverVars, fixerVars, module_info, parsed,
                 all_teams, buckets>>

NextParse ==
  \/ ParseBlueprintFile
  \/ ParseModuleInfoFile
  \/ ParseBlueprintModules
  \/ GenerateBuildActions
  \/ CompileModulesForPackages
  \/ CcLibraryMain
  \/ RunPatchListMod

SpecParse == InitParse /\ [][NextParse]_vars

\* ------------------------------------------------------------------------
\* Vocabulary of the properties
\* ------------------------------------------------------------------------
Final(m) ==
  status[m] \in {"processed", "skipped", "compile_failed", "link_failed", "installed"}

\* position of module m in the stage order
IndexOf(m) == CHOOSE k \in 1..Len(Order) : Order[k] = m

\* the driver has finished source-root resolution of m
PastResolve(m) == Final(m) \/ (Running /\ Cur = m /\ pc # "start")

\* the driver has finished the link step of m
PastLink(m) == Final(m) \/ (Running /\ Cur = m /\ pc = "install")

\* the sources the record names: the srcs list plus the singular src
OwnSources(m) ==
  Range(Config[m].srcs) \cup (IF Config[m].src # NoSrc THEN {Config[m].src} ELSE {})

\* the manifest directories under which every source of m exists
Qualifying(m) ==
  {i \in 1..NumBaseDirs : \A s \in OwnSources(m) : Exists(i, s)}

AllUnitsOk(m) == UnitsIn(m, {"ok"}) = 1..Len(futures[m])

\* C1: every header module is processed, with its exported include
\* directories collected, before a unit of any static or shared library is
\* submitted; every static and shared library has reached its final outcome
\* before the link step of any binary is invoked.
C1_StageBarrier ==
  /\ (\E l \in Modules : IsLibrary(l) /\ futures[l] # <<>>)
       => \A h \in Modules : IsHeader(h) =>
            /\ status[h] = "processed"
            /\ Range(HeaderDirsUnder(h, env.home)) \subseteq Range(header_include_dirs)
  /\ (\E b \in Modules : IsBinary(b) /\ link_cmd[b].invoked)
       => \A l \in Modules : IsLibrary(l) => Final(l)

C1_Witness ==
  /\ \E b \in Modules : IsBinary(b) /\ link_cmd[b].invoked
  /\ \E l \in Modules : IsLibrary(l) /\ status[l] = "installed"
  /\ \E l \in Modules : IsLibrary(l) /\ status[l] = "compile_failed"

\* C3: the archiver/linker of a module is invoked only when every submitted
\* unit has completed successfully and is handed exactly their object files;
\* no unit is left unfinished once the module has moved past compilation; the
\* artifact is installed only after the link step returned success.
C3_LinkInstallOrder ==
  \A m \in Modules :
    /\ link_cmd[m].invoked =>
         /\ AllUnitsOk(m)
         /\ Range(link_cmd[m].objs) = {futures[m][i].obj_file : i \in 1..Len(futures[m])}
    /\ (Final(m) \/ (Running /\ Cur = m /\ pc \in {"link", "install"}))
         => UnitsIn(m, {"queued", "running"}) = {}
    /\ installs[m] # {} => link_cmd[m].invoked /\ link_cmd[m].returncode = 0

C3_Witness ==
  \E m \in Modules :
    /\ installs[m] # {}
    /\ Len(futures[m]) >= 2
    /\ results[m][1] # 1

\* C4 (as claimed): two compilation units with different sources, or of
\* different modules, never write the same object path.
C4_NoObjCollision ==
  \A m1, m2 \in Modules :
    \A i \in 1..Len(futures[m1]) : \A j \in 1..Len(futures[m2]) :
      (m1 # m2 \/ futures[m1][i].src # futures[m2][j].src)
        => futures[m1][i].obj_file # futures[m2][j].obj_file

\* C6: cc_binary_parser.main resolves a module to the first manifest
\* directory under which all its sources exist, and compiles it against it.
C6_FirstQualifyingRoot ==
  env.driver = "cc_binary_parser" =>
    \A m \in Modules : ~IsHeader(m) =>
      /\ base_path[m] # 0 =>
           /\ Qualifying(m) # {}
           /\ base_path[m] = Min(Qualifying(m))
      /\ (PastResolve(m) /\ Qualifying(m) # {}) => base_path[m] # 0
      /\ \A i \in 1..Len(futures[m]) :
           futures[m][i].obj_file =
             ObjFile(IntermediatesDir(m, Min(Qualifying(m))), Min(Qualifying(m)),
                     futures[m][i].src)

C6_Witness ==
  /\ env.driver = "cc_binary_parser"
  /\ \E m \in Modules :
       /\ Cardinality(Qualifying(m)) >= 2
       /\ base_path[m] # 0
       /\ UnitsIn(m, {"ok"}) # {}

\* C7: a module whose sources are complete under no manifest directory is
\* never compiled, linked or installed; it is skipped with every source found
\* missing under some directory reported; and the run goes on to process
\* every other module.
C7_MissingSourcesNonFatal ==
  env.driver = "cc_binary_parser" =>
    \A m \in Modules : (~IsHeader(m) /\ Qualifying(m) = {}) =>
      /\ futures[m] = <<>>
      /\ ~link_cmd[m].invoked
      /\ installs[m] = {}
      /\ PastResolve(m) =>
           /\ status[m] = "skipped"
           /\ \A i \in 1..NumBaseDirs : \A s \in OwnSources(m) :
                ~Exists(i, s) => s \in Range(missing_sources[m])
      /\ ~Running =>
           \A x \in Modules :
             /\ Final(x)
             /\ (~IsHeader(x) /\ Qualifying(x) # {}) => futures[x] # <<>>

C7_Witness ==
  /\ ~Running
  /\ \E m, x \in Modules :
       /\ status[m] = "skipped"
       /\ Len(missing_sources[m]) >= 2
       /\ IndexOf(x) > IndexOf(m)
       /\ status[x] = "installed"

\* C10: every compilation unit of a module that names a header library in
\* header_libs has that library's exported include directory on its include
\* path, and the header library is processed before the unit is submitted.
C10_HeaderIncludePropagation ==
  \A m \in Modules : \A h \in Range(Config[m].header_libs) :
    futures[m] # <<>> =>
      /\ status[h] = "processed"
      /\ \A i \in 1..Len(futures[m]) :
           \A k \in 1..Len(Config[h].export_include_dirs) :
             <<"build_top", DirNames[env.home], Config[h].export_include_dirs[k]>>
               \in Range(futures[m][i].include_path)

C10_Witness ==
  \E m \in Modules :
    /\ Config[m].header_libs # <<>>
    /\ UnitsIn(m, {"ok"}) # {}
    /\ UnitsIn(m, {"running"}) # {}


\* ------------------------------------------------------------------------
\* The run as a function of its environment: what the driver does for each
\* module when the sources in U are the ones that fail to compile
\* ------------------------------------------------------------------------
RefModule(m, fsys, U) ==
  IF IsHeader(m)
  THEN [status |-> "processed", invoked |-> FALSE, libs |-> <<>>, installs |-> {}]
  ELSE LET r == ScanBasePaths(m, 1, Config[m].srcs, <<>>)
           b == IF env.driver = "cc_library" THEN env.home ELSE r.base_path
           cands == LibCandidates(m)
       IN IF env.driver = "cc_binary_parser" /\ ~r.valid_sources
          THEN [status |-> "skipped", invoked |-> FALSE, libs |-> <<>>, installs |-> {}]
          ELSE IF \E s \in OwnSources(m) : s \in U \/ ~Exists(b, s)
          THEN [status |-> "compile_failed", invoked |-> FALSE, libs |-> <<>>,
                installs |-> {}]
          ELSE IF LinkerReturnsOk(m, LibsReported(cands, fsys) = <<>>)
          THEN [status |-> "installed", invoked |-> TRUE,
                libs |-> LibsAppended(cands, fsys), installs |-> InstallTargets(m)]
          ELSE [status |-> "link_failed", invoked |-> TRUE,
                libs |-> LibsAppended(cands, fsys), installs |-> {}]

RECURSIVE RefFs(_, _)
\* the artifacts present after the first k modules of the stage order
RefFs(k, U) ==
  IF k = 0 THEN env.stale
  ELSE RefFs(k - 1, U) \cup RefModule(Order[k], RefFs(k - 1, U), U).installs

RefOutcome(m, U) == RefModule(m, RefFs(IndexOf(m) - 1, U), U)

\* what the run did for module m
Outcome(m) ==
  [status |-> status[m], invoked |-> link_cmd[m].invoked,
   libs |-> link_cmd[m].libs, installs |-> installs[m]]

\* the libraries module m names
NamedLibs(m) == Range(Config[m].shared_libs) \cup Range(Config[m].static_libs)

RECURSIVE DependsWithin(_, _, _)
\* m names f as a library, directly or through at most n other libraries
DependsWithin(m, f, n) ==
  \/ f \in NamedLibs(m)
  \/ n > 0 /\ \E x \in NamedLibs(m) \cap Modules : DependsWithin(x, f, n - 1)

DependsOn(m, f) == DependsWithin(m, f, Cardinality(Modules))

HasFailedUnit(f) == UnitsIn(f, {"failed"}) # {}

\* C2 (as claimed): a module with a failed unit is never linked or installed,
\* and every other module ends exactly as in the run in which the sources of
\* that module compile.
C2_FailFastOthersUnaffected ==
  \A f \in Modules : HasFailedUnit(f) =>
    /\ ~link_cmd[f].invoked
    /\ installs[f] = {}
    /\ ~Running =>
         \A m \in Modules \ {f} :
           Outcome(m) = RefOutcome(m, env.unitFails \ OwnSources(f))

\* C2 (amended): a module with a failed unit is never linked or installed,
\* and every other module that does not name it as a library, directly or
\* through other libraries, ends exactly as in the run in which the sources
\* of that module compile.
C2_FailFastIndependentUnaffected ==
  \A f \in Modules : HasFailedUnit(f) =>
    /\ ~link_cmd[f].invoked
    /\ installs[f] = {}
    /\ ~Running =>
         \A m \in Modules \ {f} :
           ~DependsOn(m, f) =>
             Outcome(m) = RefOutcome(m, env.unitFails \ OwnSources(f))

C2_Witness ==
  /\ ~Running
  /\ \E f, m \in Modules :
       /\ HasFailedUnit(f)
       /\ UnitsIn(f, {"ok"}) # {}
       /\ m # f
       /\ ~DependsOn(m, f)
       /\ IndexOf(m) > IndexOf(f)
       /\ status[m] = "installed"

\* the link step of binary a failed with a static library it names unresolved
FailedOnStaticDep(a) ==
  /\ IsBinary(a)
  /\ status[a] = "link_failed"
  /\ \E p \in Range(reported[a]) : p \in Range(LibPaths(StaticLibsOf(a), "static"))

\* binary b has its sources, they compile, every library it names is present
\* and its link succeeds when given them
BinaryEligible(b) ==
  /\ IsBinary(b)
  /\ env.driver = "cc_binary_parser" => Qualifying(b) # {}
  /\ \A s \in OwnSources(b) : s \notin env.unitFails /\ s # env.absent
  /\ Range(LibCandidates(b)) \subseteq fs
  /\ env.ld[b] # "fail"

\* C5: when the link step of a binary fails with a static-library dependency
\* unresolved, that binary is not installed, and every other binary whose
\* sources compile and whose dependencies are all present is linked and
\* installed by the end of the run.
C5_LinkFailureIsolated ==
  \A a \in Modules : FailedOnStaticDep(a) =>
    /\ installs[a] = {}
    /\ ~Running =>
         \A b \in Modules \ {a} : BinaryEligible(b) =>
           /\ link_cmd[b].invoked
           /\ status[b] = "installed"
           /\ installs[b] # {}

C5_Witness ==
  /\ ~Running
  /\ \E a, b \in Modules :
       /\ FailedOnStaticDep(a)
       /\ b # a
       /\ IndexOf(b) > IndexOf(a)
       /\ BinaryEligible(b)
       /\ status[b] = "installed"

\* C9 (as claimed): the linker is invoked with the canonical path of every
\* named library on its command line, also of those whose artifact is absent.
C9_AbsentDepOnCommandLine ==
  \A m \in Modules :
    link_cmd[m].invoked => Range(LibCandidates(m)) \subseteq Range(link_cmd[m].libs)

\* C9 (amended): a named library whose artifact is absent at link time is
\* reported and left out of the command line, the libraries present are put
\* on it; the linker is invoked whenever the module's units all succeeded;
\* and the module is aborted at the link step only if the linker returned
\* failure.
C9_AbsentDepReportedAndOmitted ==
  \A m \in Modules :
    /\ link_cmd[m].invoked =>
         /\ Range(link_cmd[m].libs) \cap Range(reported[m]) = {}
         /\ Range(link_cmd[m].libs) \cup Range(reported[m]) = Range(LibCandidates(m))
         /\ Range(link_cmd[m].libs) \subseteq fs
         /\ \A p \in Range(LibCandidates(m)) : p \notin fs => p \in Range(reported[m])
    /\ (PastLink(m) /\ futures[m] # <<>> /\ AllUnitsOk(m)) => link_cmd[m].invoked
    /\ status[m] = "link_failed" => link_cmd[m].invoked /\ link_cmd[m].returncode # 0
    /\ (Final(m) /\ link_cmd[m].invoked /\ link_cmd[m].returncode = 0)
         => status[m] = "installed"

C9_Witness ==
  \E m \in Modules :
    /\ link_cmd[m].invoked
    /\ reported[m] # <<>>
    /\ link_cmd[m].libs # <<>>
    /\ status[m] = "installed"

\* the destination root the precedence recovery > vendor > ramdisk > system
\* selects
PrecedenceRoot(recovery, vendor, ramdisk) ==
  IF recovery THEN "recovery"
  ELSE IF vendor THEN "vendor"
  ELSE IF ramdisk THEN "ramdisk"
  ELSE "system"

\* C8 (as claimed): for every combination of the recovery, vendor and ramdisk
\* flags the installer copies the artifact to exactly one destination root,
\* the one selected by the precedence recovery > vendor > ramdisk > system.
C8_InstallPrecedence ==
  dest.done =>
    {RootOf(p) : p \in dest.targets}
      = {PrecedenceRoot(dest.recovery, dest.vendor, dest.ramdisk)}

\* ------------------------------------------------------------------------
\* Vocabulary of the resolver properties
\* ------------------------------------------------------------------------
\* the target record as parsed, by value
Declared == history[1]

\* the names the target lists under "defaults", in listed order
ListedNames ==
  CASE Declared["defaults"].tag = "list" -> Declared["defaults"].items
    [] Declared["defaults"].tag = "str" -> <<Declared["defaults"].str>>
    [] OTHER -> <<>>

\* the listed names that are registered, in listed order
KnownNames == SelectSeq(ListedNames, LAMBDA n : n \in DefaultsNames)

\* the listed defaults that have key k, in listed order
Definers(k) == SelectSeq(KnownNames, LAMBDA n : registered[n][k].tag # "absent")

RECURSIVE ApplyEach(_, _, _)
\* every default of names merged in turn
ApplyEach(st, names, dmap) ==
  IF names = <<>> THEN st
  ELSE ApplyEach(ApplyItems(st, dmap[Head(names)], 1), Tail(names), dmap)

\* C11: list-merge law: when the target holds a local list L under a key and
\* exactly one listed default contributes a list D under that key, the
\* resolved value is D ++ L, empty lists included.
C11_ListMergeLaw ==
  Len(history) >= 2 =>
    \A k \in {"srcs", "export_include_dirs"} :
      (Declared[k].tag = "list" /\ Len(Definers(k)) = 1
         /\ registered[Definers(k)[1]][k].tag = "list")
        => history[2][k].items
             = registered[Definers(k)[1]][k].items \o Declared[k].items

C11_Witness ==
  /\ Len(history) >= 2
  /\ Declared["srcs"].items = <<"t.c">>
  /\ Definers("srcs") = <<"d1">>
  /\ registered["d1"]["srcs"].items = <<"a.c", "b.c">>
  /\ history[2]["srcs"].items = <<"a.c", "b.c", "t.c">>

\* C12: defaults order sensitivity: a scalar the target declares keeps its
\* value, and a scalar the target does not declare takes the value of the
\* first listed default that defines it; a later default never replaces it.
C12_FirstAppliedWins ==
  Len(history) >= 2 =>
    \A k \in Range(PropKeys) \ {"defaults"} :
      /\ Declared[k].tag = "str" => history[2][k] = Declared[k]
      /\ (Declared[k].tag = "absent" /\ Definers(k) # <<>>
            /\ registered[Definers(k)[1]][k].tag = "str")
           => history[2][k] = registered[Definers(k)[1]][k]

C12_Witness ==
  /\ Len(history) >= 2
  /\ ListedNames = <<"d1", "d2">>
  /\ Declared["src"].tag = "absent"
  /\ registered["d1"]["src"].str = "p1.c"
  /\ registered["d2"]["src"].str = "p2.c"
  /\ history[2]["src"].str = "p1.c"

\* C13: idempotence: a second application of apply_defaults to the resolved
\* record, with the same defaults, leaves the record as the first
\* application left it.
C13_Idempotent ==
  Len(history) >= 3 => history[3] = history[2]

\* C14: the registered defaults records keep their property values, list
\* contents included, through resolution, source-root resolution and
\* compilation of the targets.
C14_DefaultsNeverMutated ==
  \A n \in DefaultsNames : Deref(defaults_map[n], heap) = registered[n]

\* C15: an unknown default name is skipped without error: every application
\* of apply_defaults ends with the record that merging the registered ones
\* among the listed names, in listed order, gives.
C15_UnknownNameSkipped ==
  [][Len(history') = Len(history) + 1 =>
       LET st == [config |-> config, heap |-> heap]
           names == CASE config["defaults"].tag = "list"
                           -> heap[config["defaults"].ref]
                      [] config["defaults"].tag = "str"
                           -> <<config["defaults"].str>>
                      [] OTHER -> <<>>
           ref == ApplyEach(st, SelectSeq(names, LAMBDA n : n \in DefaultsNames),
                            defaults_map)
       IN /\ history'[Len(history')] = Deref(ref.config, ref.heap)
          /\ config' = ref.config]_vars

C15_Witness ==
  /\ Len(history) >= 2
  /\ ListedNames = <<"d1", "dx", "d2">>
  /\ registered["d2"]["srcs"].items = <<"c.c">>
  /\ registered["d1"]["srcs"].tag = "absent"
  /\ Declared["srcs"].items = <<"t.c">>
  /\ history[2]["srcs"].items = <<"c.c", "t.c">>

\* ------------------------------------------------------------------------
\* Vocabulary of the rewriter properties
\* ------------------------------------------------------------------------
\* config.steps of the current request
RequestSteps == step_lists[fixer.request]

\* a Fixer exists and fix has been entered
InRun == fixer.pc \in {"pass", "returned", "raised"}

ModuleValues == [type : ModuleTypes, properties : PropertyStates]

RECURSIVE PassOnModule(_, _)
\* one pass of the steps over one module, in order
PassOnModule(steps, mod) ==
  IF steps = <<>> THEN mod
  ELSE PassOnModule(Tail(steps), StepOnModule(Head(steps), mod))

\* step(step(t)) = step(t) for every tree t
StepIdempotent(step) ==
  \A mod \in ModuleValues :
    StepOnModule(step, StepOnModule(step, mod)) = StepOnModule(step, mod)

\* pass(pass(t)) = pass(t) for every tree t
PassIdempotent(steps) ==
  \A mod \in ModuleValues :
    PassOnModule(steps, PassOnModule(steps, mod)) = PassOnModule(steps, mod)

NoStepRaises(steps) == \A i \in 1..Len(steps) : ~RaisesAttributeError(steps[i])

\* requests of two steps that undo each other's change of the property
TogglePairs ==
  {<<"setInstallable", "clearInstallable">>, <<"clearInstallable", "setInstallable">>,
   <<"toggleInstallable", "toggleInstallable">>,
   <<"setInstallable", "removeInstallable">>,
   <<"removeInstallable", "setInstallable">>}

\* C16: fixed-point loop: within a pass the steps of the request are applied
\* once each in request order; a fingerprint is taken after every pass and
\* compared with the one before that pass; fix returns the tree at the first
\* pass where the two are equal and runs no pass after it.
C16_FixedPointLoop ==
  InRun =>
    /\ fixer.pc = "pass" =>
         fixer.applied = SubSeq(RequestSteps, 1, fixer.step - 1)
    /\ fixer.pc = "returned" => fixer.applied = RequestSteps
    /\ Len(fixer.identifiers) = fixer.passes + 1
    /\ \A k \in 1..fixer.passes :
         (fixer.identifiers[k + 1] = fixer.identifiers[k])
           <=> (k = fixer.passes /\ fixer.pc = "returned")
    /\ fixer.pc = "returned" =>
         /\ fixer.passes >= 1
         /\ TreeValue(fixer.tree, objs) = fixer.identifiers[fixer.passes + 1]

C16_Witness ==
  /\ fixer.pc = "returned"
  /\ fixer.passes = 3
  /\ RequestSteps = <<"rewriteJavaStaticLibs", "rewriteJavaImports">>
  /\ TreeValue(fixer.tree, objs) = <<Mod("java_library", "none")>>

\* C17 (as claimed): for a request of two steps that alternately toggle one
\* property of a module, fix never returns a tree and raises the
\* non-convergence error after exactly max_num_iterations passes.
C17_TogglePairRaisesAtCap ==
  (InRun /\ RequestSteps \in TogglePairs /\ caller.tree # <<>>) =>
    /\ fixer.pc # "returned"
    /\ fixer.pc = "raised" =>
         (fixer.error = "RuntimeError" /\ fixer.passes = max_num_iterations)

\* C18 (as claimed): when every step of the request is a no-op on its own
\* output, fix returns after at most 2 passes and does not raise.
C18_IdempotentStepsTwoPasses ==
  (InRun /\ NoStepRaises(RequestSteps)
     /\ \A i \in 1..Len(RequestSteps) : StepIdempotent(RequestSteps[i])) =>
    /\ fixer.pc # "raised"
    /\ fixer.passes <= 2
    /\ fixer.pc = "pass" => fixer.passes <= 1

\* C18 (amended): when one whole pass of the request, its steps applied once
\* in request order, is a no-op on its own output, fix returns after at most
\* 2 passes and does not raise.
C18_IdempotentPassTwoPasses ==
  (InRun /\ NoStepRaises(RequestSteps) /\ PassIdempotent(RequestSteps)) =>
    /\ fixer.pc # "raised"
    /\ fixer.passes <= 2
    /\ fixer.pc = "pass" => fixer.passes <= 1

C18_Witness ==
  /\ fixer.pc = "returned"
  /\ fixer.passes = 2
  /\ Len(RequestSteps) = 2
  /\ RequestSteps[1] # RequestSteps[2]
  /\ PassIdempotent(RequestSteps)
  /\ TreeValue(fixer.tree, objs) # caller.original

\* C19: private clone: the caller's tree keeps, in every module, the value
\* it had when the Fixer was built, whether fix returns or raises; the Fixer
\* works on module objects of its own.
C19_PrivateClone ==
  /\ TreeValue(caller.tree, objs) = caller.original
  /\ Range(fixer.tree) \cap Range(caller.tree) = {}

C19_Witness ==
  /\ fixer.pc = "raised"
  /\ fixer.error = "RuntimeError"
  /\ TreeValue(fixer.tree, objs) # caller.original
  /\ TreeValue(caller.tree, objs) = caller.original

\* C20: the extension registry and the base step list are read-only: no
\* step of building a request or of a fix run changes their contents or
\* order.
C20_RegistryReadOnly ==
  [][/\ fix_steps_extensions' = fix_steps_extensions
     /\ step_lists'["fix_steps"] = step_lists["fix_steps"]]_vars

C20_Witness ==
  /\ fixer.pc = "returned"
  /\ Len(fix_steps_extensions) = 2
  /\ RequestSteps = AllExtensionSteps(fix_steps_extensions)
  /\ step_lists["fix_steps"] = fix_steps
  /\ TreeValue(fixer.tree, objs) # caller.original

\* ------------------------------------------------------------------------
\* Vocabulary of the parser properties
\* ------------------------------------------------------------------------
\* parse_blueprint_file has returned or raised for a file that exists
FileParsed ==
  parsed.op = "parse_blueprint_file" /\ parsed.file \in DOMAIN BpFiles

\* the text handed to parse_blueprint_file
ParsedText == BpFiles[parsed.file]

\* a driver has gone through the manifest
DriverDone == parsed.op \in {"parse_module_info_file", "parse_blueprint_modules"}

\* the records returned, as parsed (without the blueprint_file a driver adds)
ReturnedRecords ==
  {[key \in DOMAIN parsed.configs[n] \ {"blueprint_file"} |-> parsed.configs[n][key]] :
     n \in 1..Len(parsed.configs)}

\* the listed files that exist and that parse_blueprint_file raises on
FailingFiles ==
  {f \in Range(module_info) \cap DOMAIN BpFiles : ~parse_blueprint_file(f).ok}

\* C21: structural parse failure: parsing a text with unbalanced braces, or
\* with a block (identifier, opening brace, closing brace) that holds no
\* property, raises and returns no record of the file.
C21_StructuralFailure ==
  FileParsed =>
    LET text == StripComments(ParsedText)
        Count(kind) == Cardinality({n \in 1..Len(text) : text[n].k = kind})
        Unbalanced == Count("{") # Count("}")
        EmptyBlock == \E n \in 1..(Len(text) - 2) :
                        /\ text[n].k = "word"
                        /\ text[n + 1].k = "{"
                        /\ text[n + 2].k = "}"
    IN (Unbalanced \/ EmptyBlock) => (~parsed.ok /\ parsed.configs = <<>>)

\* C22: file-scoped failure isolation: when a listed file fails to parse, the
\* records of every other listed file that parses, earlier or later in the
\* manifest, are among the records the driver returns.
C22_FailureIsolation ==
  (DriverDone /\ FailingFiles # {}) =>
    \A f \in Range(module_info) \cap DOMAIN BpFiles :
      f \notin FailingFiles =>
        Range(parse_blueprint_file(f).configs) \subseteq ReturnedRecords

\* C23: list concatenation: a property written  key: [..] + [..]  parses to
\* the list of the left elements followed by the right elements, and a
\* property written  key: [..] + reference  to a list that starts with the
\* left elements and goes on with the reference.
C23_ListConcatenation ==
  FileParsed =>
    LET text == StripComments(ParsedText)
        Items(list) == [n \in 1..Len(list.l) |-> list.l[n].v]
    IN \A n \in 1..(Len(text) - 4) :
         (/\ text[n].k = "word" /\ text[n + 1].k = ":"
          /\ text[n + 2].k = "list" /\ text[n + 3].k = "+"
          /\ text[n + 4].k \in {"list", "word"})
         => /\ parsed.ok
            /\ \E r \in ReturnedRecords :
                 /\ text[n].v \in DOMAIN r
                 /\ r[text[n].v].tag = "list"
                 /\ IF text[n + 4].k = "list"
                    THEN r[text[n].v].items = Items(text[n + 2]) \o Items(text[n + 4])
                    ELSE /\ Len(r[text[n].v].items) > Len(text[n + 2].l)
                         /\ SubSeq(r[text[n].v].items, 1, Len(text[n + 2].l))
                              = Items(text[n + 2])

\* C24: bare references are preserved: a property whose value is a bare
\* identifier is in the parsed record under its key, as a value that is none
\* of list, block, string, boolean, integer; the file does not raise.
C24_BareReferencePreserved ==
  FileParsed =>
    LET text == StripComments(ParsedText)
    IN \A n \in 1..(Len(text) - 2) :
         (/\ text[n].k = "word" /\ text[n + 1].k = ":"
          /\ text[n + 2].k = "word" /\ text[n + 2].lead # text[n + 2].v)
         => /\ parsed.ok
            /\ \E r \in ReturnedRecords :
                 /\ text[n].v \in DOMAIN r
                 /\ r[text[n].v].tag \notin {"list", "block", "str", "bool", "int"}

\* C25: comments are stripped before property extraction: a key that is
\* written in comments only is in no record of the file.
C25_CommentsStripped ==
  FileParsed =>
    LET Keys(text) == {text[n].v : n \in {m \in 1..(Len(text) - 1) :
                                            /\ text[m].k = "word"
                                            /\ text[m + 1].k = ":"}}
    IN \A key \in Keys(ParsedText) \ Keys(StripComments(ParsedText)) :
         \A r \in ReturnedRecords : key \notin DOMAIN r

\* C26: team association export: for every named module that is not a team,
\* the exported output has an entry whose target_name is the module's name;
\* the entry's trendy_team_id is that of the team the module names, and the
\* entry has no trendy_team_id when the module names no team.
C26_TeamAssociation ==
  all_teams.done =>
    \A m \in {r \in Range(parsed.configs) : r["type"].str # "team" /\ "name" \in DOMAIN r} :
      \E n \in 1..Len(all_teams.teams) :
        LET entry == all_teams.teams[n]
        IN /\ "target_name" \in DOMAIN entry
           /\ entry["target_name"] = m["name"]
           /\ IF "team" \in DOMAIN m
              THEN \E t \in Range(parsed.configs) :
                     /\ t["type"].str = "team"
                     /\ "name" \in DOMAIN t /\ t["name"] = m["team"]
                     /\ "trendy_team_id" \in DOMAIN t
                     /\ "trendy_team_id" \in DOMAIN entry
                     /\ entry["trendy_team_id"] = t["trendy_team_id"]
              ELSE "trendy_team_id" \notin DOMAIN entry

\* C27: duplicate include simplification: after the patch-list function,
\* local_include_dirs holds its entries that are not in export_include_dirs,
\* in their order; the property is removed when it was not empty and every
\* entry went, and an empty local_include_dirs stays an empty list.
C27_DuplicateIncludesRemoved ==
  patch.pc = "done" =>
    LET local == patch.before.local_include_dirs
        kept == SelectSeq(local,
                  LAMBDA d : d \notin Range(patch.before.export_include_dirs))
    IN IF local # <<>> /\ kept = <<>>
       THEN "local_include_dirs" \notin DOMAIN patch.mod
       ELSE /\ "local_include_dirs" \in DOMAIN patch.mod
            /\ patch.mod.local_include_dirs = kept

\* the four stage lists of the driver that sorted the records
StageBuckets ==
  IF buckets.driver = "main_build"
  THEN {"cc_library_headers", "cc_library_static", "cc_library_shared", "cc_binary"}
  ELSE {"header_libs", "static_libs", "shared_libs", "binaries"}

\* the stage lists that hold the n-th record
BucketsOf(n) == {b \in StageBuckets : n \in Range(buckets.placed[b])}

\* the type tags the drivers build
BuildableTypes ==
  {"cc_library_headers", "cc_library_static", "cc_library_shared", "cc_library",
   "cc_binary"}

\* the type tags the drivers know
KnownTypes == BuildableTypes \cup {"defaults", "cc_defaults", "prebuilt_etc_xml"}

\* C28: stage classification is total and exclusive: every record of a
\* buildable type is in exactly one of the four stage lists, and two records
\* of the same type are in the same list.
C28_ClassificationTotalExclusive ==
  buckets.driver # "" =>
    LET buildable == {n \in 1..Len(parsed.configs) :
                        parsed.configs[n]["type"].str \in BuildableTypes}
    IN /\ \A n \in buildable : Cardinality(BucketsOf(n)) = 1
       /\ \A n, m \in buildable :
            parsed.configs[n]["type"] = parsed.configs[m]["type"]
              => BucketsOf(n) = BucketsOf(m)

\* C29: unknown type tags are excluded from scheduling: a record whose type
\* the drivers do not know is handed to no compile function.
C29_UnknownTypeNotScheduled ==
  buckets.driver # "" =>
    \A n \in 1..Len(parsed.configs) :
      parsed.configs[n]["type"].str \notin KnownTypes
        => \A k \in 1..Len(buckets.compiled) : buckets.compiled[k].index # n

\* ------------------------------------------------------------------------
\* Vocabulary of the request-building properties
\* ------------------------------------------------------------------------
\* the elements of the sequences of a sequence, in order
RECURSIVE Concat(_)
Concat(seqs) == IF seqs = <<>> THEN <<>> ELSE Head(seqs) \o Concat(Tail(seqs))

\* what a builder call is to add to the request
StepsToAdd(call) ==
  LET StepsOf(extensions) ==
        Concat([n \in 1..Len(extensions) |-> extensions[n].steps])
  IN CASE call.method = "add_all" -> fix_steps \o StepsOf(fix_steps_extensions)
       [] call.method = "add_base" -> fix_steps
       [] OTHER -> StepsOf(SelectSeq(fix_steps_extensions,
                                     LAMBDA e : re_match(call.pattern, e.name)))

\* C30: FixRequest composition order: the steps of a request are, for its
\* builder calls in call order, the base steps followed by the steps of every
\* registered extension in registration order (add_all), the base steps
\* (add_base), or the steps of the extensions whose name matches the pattern,
\* in registration order (add_matching_extensions).
C30_CompositionOrder ==
  fixer.pc \in {"new", "request"} =>
    RequestSteps = Concat([n \in 1..Len(fixer.calls) |-> StepsToAdd(fixer.calls[n])])

\* a request built by add_matching_extensions and then add_all, over two
\* extensions of different steps of which the pattern matches both
C30_Witness ==
  /\ fixer.pc = "request"
  /\ Len(fix_steps_extensions) = 2
  /\ fix_steps_extensions[1].steps # fix_steps_extensions[2].steps
  /\ Len(fixer.calls) = 2
  /\ fixer.calls[1] = [method |-> "add_matching_extensions", pattern |-> <<"ext">>]
  /\ fixer.calls[2].method = "add_all"
  /\ Len(RequestSteps) = 5

\* ------------------------------------------------------------------------
\* Properties of the rewriter on printed trees (specification SpecPrint)
\* ------------------------------------------------------------------------
\* two dicts hold the same keys with the same values
SameEntries(a, b) ==
  /\ Len(a) = Len(b)
  /\ \A i \in DOMAIN a : DictHas(b, a[i].k) /\ DictGet(b, a[i].k, None) = a[i].v

\* two modules have the same type and the same property names and values
SameModule(a, b) ==
  /\ Len(a) = Len(b)
  /\ \A i \in DOMAIN a :
       /\ DictHas(b, a[i].k)
       /\ IF a[i].v.tag = "dict"
          THEN /\ DictGet(b, a[i].k, None).tag = "dict"
               /\ SameEntries(a[i].v.items, DictGet(b, a[i].k, None).items)
          ELSE DictGet(b, a[i].k, None) = a[i].v

\* the Fixer's tree has the content of the tree it was made of
SameContentAsCaller ==
  /\ Len(fixer.tree) = Len(caller.tree)
  /\ \A i \in 1..Len(fixer.tree) :
       SameModule(objs[fixer.tree[i]], objs[caller.tree[i]])

\* C31: whenever the tree of the Fixer has the same modules with the same
\* property names and values as the tree it was made of, whatever was
\* removed and re-added since, its fingerprint is the fingerprint of that tree
C31_FingerprintCanonical ==
  (InRun /\ SameContentAsCaller)
    => fingerprint(fixer.tree, objs) = fingerprint(caller.tree, objs)

\* the request was built by add_base or add_all: it starts with the base steps
BuiltWithBase ==
  /\ Len(RequestSteps) >= Len(fix_steps)
  /\ SubSeq(RequestSteps, 1, Len(fix_steps)) = fix_steps

\* a java_import module whose host property is true and whose srcs are .jar
HostJarImport(mod) ==
  /\ DictGet(mod, "type", None) = JStr("java_import")
  /\ GetProperty(mod, "host") = JBool(TRUE)
  /\ Truthy(GetProperty(mod, "srcs"))
  /\ \A n \in DOMAIN GetProperty(mod, "srcs").items :
       GetProperty(mod, "srcs").items[n][2] = ".jar"

\* C32: Fixer.fix with a request built by add_base or add_all, on a tree
\* holding a java_import module with host true and .jar srcs, ends by
\* returning, and in the returned tree the module has type java_import_host,
\* no host property and its srcs under jars
C32_BaseFixOnPrebuilts ==
  \A i \in 1..Len(caller.tree) :
    (/\ fixer.pc \in {"returned", "raised"}
     /\ BuiltWithBase
     /\ HostJarImport(objs[caller.tree[i]]))
      => /\ fixer.pc = "returned"
         /\ DictGet(objs[fixer.tree[i]], "type", None) = JStr("java_import_host")
         /\ GetProperty(objs[fixer.tree[i]], "host") = None
         /\ GetProperty(objs[fixer.tree[i]], "srcs") = None
         /\ GetProperty(objs[fixer.tree[i]], "jars")
              = GetProperty(objs[caller.tree[i]], "srcs")

\* ------------------------------------------------------------------------
\* Merge order of several defaults (specification SpecDefaults)
\* ------------------------------------------------------------------------
\* the list the target declares under k; no entries when it has no k
LocalList(k) == IF Declared[k].tag = "list" THEN Declared[k].items ELSE <<>>

\* C33: multi-default merge order: when two of the listed defaults, da
\* listed before db, contribute the lists Da and Db under a key, the first
\* application resolves the key to Db ++ Da ++ L for a target with local list
\* L, and to Db ++ Da for a target without the key.
C33_MultiDefaultOrder ==
  Len(history) >= 2 =>
    \A k \in {"srcs", "export_include_dirs"} :
      (/\ Declared[k].tag \in {"list", "absent"}
       /\ Len(Definers(k)) = 2
       /\ \A n \in 1..2 : registered[Definers(k)[n]][k].tag = "list")
        => /\ history[2][k].tag = "list"
           /\ history[2][k].items
                = registered[Definers(k)[2]][k].items
                    \o registered[Definers(k)[1]][k].items \o LocalList(k)

C33_Witness ==
  /\ Len(history) >= 2
  /\ ListedNames = <<"d1", "d2">>
  /\ Declared["srcs"].items = <<"t.c">>
  /\ registered["d1"]["srcs"].items = <<"a.c", "b.c">>
  /\ registered["d2"]["srcs"].items = <<"c.c">>
  /\ history[2]["srcs"].items = <<"c.c", "a.c", "b.c", "t.c">>

\* ------------------------------------------------------------------------
\* The lookup map of the defaults (specification SpecParse)
\* ------------------------------------------------------------------------
\* C34: same-name defaults precedence: when a defaults record and a
\* cc_defaults record of the manifest have the same name, the lookup map of
\* main_build holds the cc_defaults record under that name, whichever of the
\* two was parsed first.
C34_CcDefaultsPrecedence ==
  buckets.driver = "main_build" =>
    \A n, m \in DOMAIN parsed.configs :
      (/\ parsed.configs[n]["type"].str = "defaults"
       /\ parsed.configs[m]["type"].str = "cc_defaults"
       /\ parsed.configs[n]["name"] = parsed.configs[m]["name"])
        => /\ parsed.configs[n]["name"].str \in DOMAIN buckets.lookup
           /\ parsed.configs[buckets.lookup[parsed.configs[n]["name"].str]]["type"].str
                = "cc_defaults"

\* the cc_defaults record was parsed before the defaults record of its name
C34_Witness ==
  /\ buckets.driver = "main_build"
  /\ module_info = <<"ok.bp", "defs.bp">>
  /\ parsed.configs[2]["type"].str = "cc_defaults"
  /\ parsed.configs[4]["type"].str = "defaults"
  /\ parsed.configs[2]["name"] = parsed.configs[4]["name"]
  /\ buckets.lookup["d"] = 2

\* ------------------------------------------------------------------------
\* The record through source-root resolution (specification SpecDefaults)
\* ------------------------------------------------------------------------
\* C35: source-root resolution leaves the record unchanged: after the
\* manifest directories were examined for the module and it was compiled,
\* its srcs list holds exactly the entries it had after defaults resolution.
C35_ResolutionLeavesSrcs ==
  compiled => Deref(config, heap)["srcs"] = history[Len(history)]["srcs"]

\* ------------------------------------------------------------------------
\* The inputs of the link step (specification Spec)
\* ------------------------------------------------------------------------
\* C36: deterministic link input order: the object files handed to the
\* archiver or linker for a module are in the order of the module's srcs
\* list (the order its units were submitted in), for every order in which
\* the units finish.
C36_LinkInputOrder ==
  \A m \in Modules :
    link_cmd[m].invoked =>
      link_cmd[m].objs = [k \in 1..Len(futures[m]) |-> futures[m][k].obj_file]

\* ------------------------------------------------------------------------
\* The include path of a module's units (specification Spec)
\* ------------------------------------------------------------------------
\* C37: include directories follow declared dependencies: no compilation
\* unit of a module has on its include path an exported include directory
\* of a header library the module does not name in header_libs.
C37_IncludesFollowDeps ==
  \A m \in Modules : \A h \in Modules \ {m} :
    (IsHeader(h) /\ h \notin Range(Config[m].header_libs)) =>
      \A i \in 1..Len(futures[m]) : \A b \in 1..NumBaseDirs :
        \A k \in 1..Len(Config[h].export_include_dirs) :
          <<"build_top", DirNames[b], Config[h].export_include_dirs[k]>>
            \notin Range(futures[m][i].include_path)

\* ------------------------------------------------------------------------
\* The canonical path of a library dependency (specification Spec)
\* ------------------------------------------------------------------------
\* the library lib was archived or linked with success before the link step
\* of module m
BuiltBefore(lib, m) ==
  /\ link_cmd[lib].invoked /\ link_cmd[lib].returncode = 0
  /\ status[lib] = "installed"
  /\ IndexOf(lib) < IndexOf(m)
  /\ link_cmd[m].invoked

\* C38: canonical dependency path matches the produced artifact: after a
\* static (shared) library module was archived (linked) with success, the
\* link step of a later module that names it in static_libs (shared_libs)
\* finds the artifact at the path get_library_path computes and puts it on
\* the linker's command line.
C38_CanonicalPathHoldsArtifact ==
  \A m \in Modules :
    /\ \A lib \in Range(Config[m].static_libs) :
         (~IsStatic(m) /\ BuiltBefore(lib, m))
           => get_library_path(lib, "static") \in Range(link_cmd[m].libs)
    /\ \A lib \in Range(Config[m].shared_libs) :
         (~IsStatic(m) /\ BuiltBefore(lib, m))
           => get_library_path(lib, "shared") \in Range(link_cmd[m].libs)

====
